---- MODULE Spec2Model ----
(***************************************************************************)
(* A model of the executive email assistant (eaia): the preference store   *)
(* shared by the drafting / rewrite stages and the reflection graphs, the  *)
(* retry wrappers around the external capabilities, and the triage         *)
(* pre-filter.                                                             *)
(***************************************************************************)
EXTENDS Integers, Sequences, FiniteSets, TLC

(***************************************************************************)
(* Bounds of the model.                                                    *)
(***************************************************************************)
NumRuns == 2          \* primary runs that share the store
MaxDrafts == 1        \* times one run enters draft_response
MaxSends == 2         \* length of the list the selection stage returns

Runs == 1..NumRuns
Tasks == 1..MaxSends

(***************************************************************************)
(* PART 1 -- the preference store.                                         *)
(***************************************************************************)

\* config["configurable"].get("assistant_id", "default"): the id may be missing
NoAssistantId == "<missing>"
AssistantIds == {NoAssistantId, "a1"}
Namespace(assistant_id) ==
    IF assistant_id = NoAssistantId THEN "default" ELSE assistant_id
Namespaces == {Namespace(a) : a \in AssistantIds}

\* store.aget returns None for a missing key, else an item whose value is a dict
None == [none |-> TRUE]
Item(data) == [data |-> data]
\* mutant: the stage looks for the text under another field of the value
HasData_WrongField(result) == result # None /\ "value" \in DOMAIN result
HasData(result) == result # None /\ "data" \in DOMAIN result

\* the statically supplied defaults (config.yaml / configurable)
prompt_config ==
    [schedule_preferences   |-> "cfg schedule",
     background_preferences |-> "cfg background",
     response_preferences   |-> "cfg response",
     rewrite_preferences    |-> "cfg rewrite"]

\* the keys a stage reads, in the order it reads them
DraftKeys == <<"schedule_preferences", "random_preferences", "response_preferences">>
RewriteKeys == <<"rewrite_instructions">>
StageNames == {"draft_response", "rewrite"}
KeysOf(name) == IF name = "draft_response" THEN DraftKeys ELSE RewriteKeys
StoreKeys == {"schedule_preferences", "random_preferences",
              "response_preferences", "rewrite_instructions"}

\* the prompt_config field each key is seeded from
ConfigField(key) ==
    CASE key = "schedule_preferences" -> "schedule_preferences"
      [] key = "random_preferences"   -> "background_preferences"
      [] key = "response_preferences" -> "response_preferences"
      [] key = "rewrite_instructions" -> "rewrite_preferences"
DefaultOf(key) == prompt_config[ConfigField(key)]

\* reflection_graphs.py
MemoryTypes == {"tone", "background", "email", "calendar"}
MEMORY_TO_UPDATE_KEYS ==
    [tone       |-> "rewrite_instructions",
     background |-> "random_preferences",
     email      |-> "response_preferences",
     calendar   |-> "schedule_preferences"]
\* state["prompt_types"]: the kinds the caller offers to the selection
OfferedTypes == {MemoryTypes, {"tone", "email"}}
\* response["memory_types_to_update"] is a list[str]: any names, in any number
SelectedNames == MemoryTypes \cup {"other"}
\* the revised prompts the reflection model may return
NewPrompts == {"rev1", "rev2"}
\* mutant: update_general stores the revised prompt under another field
ReflectionItem_WrongField(new_prompt) == [prompt |-> new_prompt]
\* what update_general puts for a revised prompt
ReflectionItem(new_prompt) == Item(new_prompt)

Unset == "<unset>"
NotRead == [notread |-> TRUE]

(***************************************************************************)
(* PART 2 -- text: the fields of an email as the code searches them.       *)
(* A text is a sequence of words separated by single blanks.  A pattern is *)
(* a sequence of phrases joined by ".*"; a phrase is a sequence of words   *)
(* joined by single blanks.  re.search and Python's "in" look for          *)
(* substrings, so a phrase may start or end inside a word.                 *)
(***************************************************************************)
MaxSubjectLen == 2    \* words of a generated subject
MaxContentLen == 1    \* words of a generated body

\* str.lower() on the words of the vocabulary
Lower(w) ==
    CASE w = "Weekly" -> "weekly"
      [] w = "NVIDIA" -> "nvidia"
      [] w = "Hi"     -> "hi"
      [] OTHER        -> w
LowerText(text) == [i \in 1..Len(text) |-> Lower(text[i])]

\* the searched fragments that occur inside a lowercase word of the vocabulary
Inside(w) ==
    {w} \cup (CASE w = "newsletter" -> {"news"}
                [] w = "invitation" -> {"at"}
                [] w = "invited"    -> {"invite"}
                [] w = "3pm"        -> {"pm"}
                [] w = "sam@gmail.com" -> {"gmail.com", "@"}
                [] w = "news@nvidia.com" -> {"@", "news", "nvidia"}
                [] w = "hr@corp.com" -> {"@"}
                [] OTHER -> {})
StartsWith(w, f) ==
    f = w \/ <<w, f>> \in {<<"newsletter", "news">>, <<"invited", "invite">>}
EndsWith(w, f) ==
    f = w \/ <<w, f>> \in {<<"3pm", "pm">>}

\* the phrase occurs in the text, starting in word i
PhraseAt(text, phrase, i) ==
    LET n == Len(phrase) IN
    /\ n >= 1 /\ i >= 1 /\ i + n - 1 <= Len(text)
    /\ IF n = 1 THEN phrase[1] \in Inside(text[i])
       ELSE /\ EndsWith(text[i], phrase[1])
            /\ StartsWith(text[i + n - 1], phrase[n])
            /\ \A j \in 2..(n - 1) : text[i + j - 1] = phrase[j]

\* "fragment in text" for a fragment without blanks
Contains(text, fragment) == \E i \in 1..Len(text) : fragment \in Inside(text[i])

\* re.search(pattern, text): the phrases occur in order, anything between them
Search(pattern, text) ==
    IF Len(pattern) = 1
    THEN \E i \in 1..Len(text) : PhraseAt(text, pattern[1], i)
    ELSE \E i, j \in 1..Len(text) :
            /\ PhraseAt(text, pattern[1], i)
            /\ PhraseAt(text, pattern[2], j)
            /\ j >= i + Len(pattern[1])

(***************************************************************************)
(* PART 3 -- the triage pre-filter (triage.py).                            *)
(***************************************************************************)
\* confidences and thresholds in tenths
PROMOTIONAL_INDICATORS ==
    << [subject_pattern |-> << <<"newsletter">> >>,
        content_pattern |-> << <<"unsubscribe">> >>, confidence |-> 9],
       [subject_pattern |-> << <<"nvidia">>, <<"news">> >>,
        content_pattern |-> << >>, confidence |-> 8],
       [subject_pattern |-> << <<"weekly", "digest">> >>,
        content_pattern |-> << >>, confidence |-> 7],
       [subject_pattern |-> << <<"personalized">>, <<"for", "you">> >>,
        content_pattern |-> << >>, confidence |-> 7] >>

IMPORTANT_PATTERNS ==
    << << <<"assignment", "review">> >>,
       << <<"interview">> >>,
       << <<"job", "offer">> >>,
       << <<"meeting", "invitation">> >>,
       << <<"calendar", "invite">> >> >>

\* confidence > 0.8 when subject and body both match
BothThreshold == 8
\* confidence > 0.9 when only one of them matches
SingleThreshold == 9

\* any(re.search(p, subject) or re.search(p, content) for p in IMPORTANT_PATTERNS)
ImportantMatch(subject, content) ==
    \E n \in 1..Len(IMPORTANT_PATTERNS) :
       Search(IMPORTANT_PATTERNS[n], subject) \/ Search(IMPORTANT_PATTERNS[n], content)

\* the subject reads like a meeting invitation with a time marker
InvitationWithMarker(subject) ==
    /\ \/ Contains(subject, "invitation")
       \/ Contains(subject, "invited")
       \/ Contains(subject, "calendar")
    /\ \E marker \in {"@", "at", "pm", "am"} : Contains(subject, marker)

\* re.search(...) if pattern else False
SubjectMatch(ind, subject) ==
    ind.subject_pattern # << >> /\ Search(ind.subject_pattern, subject)
ContentMatch(ind, content) ==
    ind.content_pattern # << >> /\ Search(ind.content_pattern, content)

\* mutant: one match is enough at the lower threshold
IndicatorFires_OneMatch(ind, subject, content) ==
    /\ SubjectMatch(ind, subject) \/ ContentMatch(ind, content)
    /\ ind.confidence > BothThreshold

\* the test of one promotional indicator
IndicatorFires(ind, subject, content) ==
    \/ /\ SubjectMatch(ind, subject) /\ ContentMatch(ind, content)
       /\ ind.confidence > BothThreshold
    \/ SubjectMatch(ind, subject) /\ ind.confidence > SingleThreshold
    \/ ContentMatch(ind, content) /\ ind.confidence > SingleThreshold

\* mutant: the allow-list is consulted after the promotional indicators
should_ignore_immediately_PromoFirst(email) ==
    LET subject == LowerText(email.subject)
        content == LowerText(email.page_content)
    IN \E n \in 1..Len(PROMOTIONAL_INDICATORS) :
          IndicatorFires(PROMOTIONAL_INDICATORS[n], subject, content)

should_ignore_immediately(email) ==
    LET subject == LowerText(email.subject)
        content == LowerText(email.page_content)
    IN IF ImportantMatch(subject, content) THEN FALSE
       ELSE IF InvitationWithMarker(subject) THEN FALSE
       ELSE \E n \in 1..Len(PROMOTIONAL_INDICATORS) :
               IndicatorFires(PROMOTIONAL_INDICATORS[n], subject, content)

(***************************************************************************)
(* PART 4 -- the low-stakes personal heuristic (draft_response.py).        *)
(***************************************************************************)
personal_domains == {"gmail.com", "yahoo.com", "outlook.com", "hotmail.com", "icloud.com"}
personal_indicators ==
    { <<"catch", "up">>, <<"how", "are", "you">>, <<"miss", "you">>,
      <<"coffee">>, <<"lunch">>, <<"friend">> }
greetings == {"hi", "hey", "hello"}
ShortWords == 30      \* len(content.split()) < 30
CasualPrefix == 10    \* content[:10]

\* the number of characters of a lowercase word of the vocabulary
WordLen(w) ==
    CASE w \in {"hi", "to"} -> 2
      [] w \in {"hey"} -> 3
      [] w \in {"here", "news"} -> 4
      [] w \in {"hello", "lunch", "click"} -> 5
      [] w \in {"coffee", "digest", "weekly", "nvidia", "invite"} -> 6
      [] w \in {"tomorrow", "schedule", "calendar"} -> 8
      [] w \in {"interview"} -> 9
      [] w \in {"newsletter", "invitation"} -> 10
      [] OTHER -> 11
RECURSIVE Offset(_, _)
\* the position in the text of the first character of word i
Offset(text, i) == IF i = 1 THEN 0 ELSE Offset(text, i - 1) + WordLen(text[i - 1]) + 1

\* any(greeting in content[:10] ...): the words of the vocabulary hold a
\* greeting only at their start
GreetingInPrefix(content) ==
    \E i \in 1..Len(content), g \in greetings :
       /\ StartsWith(content[i], g)
       /\ Offset(content, i) + WordLen(g) <= CasualPrefix

is_personal_email(email) ==
    LET subject == LowerText(email.subject)
        content == LowerText(email.page_content)
        from_email == Lower(email.from_email)
        is_from_personal_domain == \E d \in personal_domains : d \in Inside(from_email)
        has_personal_language ==
            \E ind \in personal_indicators :
               Search(<<ind>>, content) \/ Search(<<ind>>, subject)
        is_short_casual == Len(content) < ShortWords /\ GreetingInPrefix(content)
    IN \/ is_from_personal_domain /\ (has_personal_language \/ is_short_casual)
       \/ has_personal_language /\ is_short_casual

VARIABLES
    store,        \* store[ns][key]: None or the item stored
    writer,       \* history: who wrote store[ns][key] last: "none", "stage", "reflection"
    assistant_id, \* assistant_id[r]: the run's configurable assistant_id
    runStage,     \* runStage[r]: "idle", "drafted", or the stage the run is executing
    runIdx,       \* runIdx[r]: index in KeysOf(runStage[r]) of the key being read
    runPc,        \* runPc[r]: "get" (before aget), "put" (before the seeding aput), "rest"
    got,          \* got[r][key]: what aget returned in this stage invocation
    prefs,        \* prefs[r][key]: the text the stage uses for the key
    drafts,       \* drafts[r]: times the run has entered draft_response
    dispatched,   \* whether determine_what_to_update has run
    taskPc,       \* taskPc[t]: "none", "get", "llm", "done", "failed"
    taskKey,      \* taskKey[t]: prompt_key of the task
    taskNs,       \* taskNs[t]: assistant_key of the task
    prompt_types, \* state["prompt_types"] of the fan-out: the kinds offered
    \* --- one stage invocation with its retry wrapper (PART 5) ---
    email,        \* state["email"]
    messages,     \* state["messages"]
    stage,        \* the stage function invoked: "triage_input" or "draft_response"
    spc,          \* "start", "call", "sleep", "done" (returned), "failed" (raised)
    retries,      \* the wrapper's retries
    sleeps,       \* the wait_time of every asyncio.sleep so far, in order
    calls,        \* invocations of the external capability so far
    failures,     \* invocations of the wrapped function that raised
    overloads,    \* those of them that raised an overloaded InternalServerError
    resp,         \* what the capability answered in the latest invocation
    err,          \* the latest exception raised by the wrapped function
    wrapperRaised, \* the exception retry_with_exponential_backoff raised
    stageRaised,  \* the exception the stage function raised to its caller
    triage,       \* the stage's update of state["triage"]
    draft,        \* the stage's update of state["draft"]
    \* --- one run of the main graph (PART 6) ---
    node,         \* the node the engine executes next, or "END"
    status,       \* "idle", "running", "suspended", "ended", "failed"
    steps,        \* node executions of the run so far
    last,         \* the node executed last
    failure,      \* the class of the error that ended the run
    resumes,      \* history: resume calls so far
    visits,       \* history: executions of human_node so far
    effects,      \* history: the calls of the delivery collaborators that succeeded
    removed       \* history: the ids of the entries merges took out of the log

storeVars == <<store, writer, assistant_id, runStage, runIdx, runPc, got, prefs,
               drafts, dispatched, taskPc, taskKey, taskNs, prompt_types>>
runVars == <<assistant_id, runStage, runIdx, runPc, got, prefs, drafts>>
taskVars == <<dispatched, taskPc, taskKey, taskNs, prompt_types>>

stageVars == <<email, messages, stage, spc, retries, sleeps, calls, failures, overloads, resp,
               err, wrapperRaised, stageRaised, triage, draft>>

graphVars == <<node, status, steps, last, failure, resumes, visits, effects, removed>>

vars == <<storeVars, stageVars, graphVars>>

\* no run of the main graph (PART 6) is under way
GraphIdle ==
    /\ node = "none"
    /\ status = "idle"
    /\ steps = 0
    /\ last = "none"
    /\ failure = "none"
    /\ resumes = 0
    /\ visits = 0
    /\ effects = << >>
    /\ removed = {}

InitStoreVars ==
    /\ store = [ns \in Namespaces |-> [k \in StoreKeys |-> None]]
    /\ writer = [ns \in Namespaces |-> [k \in StoreKeys |-> "none"]]
    /\ assistant_id \in [Runs -> AssistantIds]
    /\ runStage = [r \in Runs |-> "idle"]
    /\ runIdx = [r \in Runs |-> 1]
    /\ runPc = [r \in Runs |-> "get"]
    /\ got = [r \in Runs |-> [k \in StoreKeys |-> NotRead]]
    /\ prefs = [r \in Runs |-> [k \in StoreKeys |-> Unset]]
    /\ drafts = [r \in Runs |-> 0]
    /\ dispatched = FALSE
    /\ taskPc = [t \in Tasks |-> "none"]
    /\ taskKey = [t \in Tasks |-> "rewrite_instructions"]
    /\ taskNs = [t \in Tasks |-> "default"]
    /\ prompt_types = {}

RunNs(r) == Namespace(assistant_id[r])
RunKey(r) == KeysOf(runStage[r])[runIdx[r]]

\* the graph enters a stage function: draft_response (from triage, the human
\* node or bad_tool_name), or rewrite, which only follows draft_response
StageEnter(r, name) ==
    /\ \/ /\ name = "draft_response"
          /\ runStage[r] \in {"idle", "drafted"}
          /\ drafts[r] < MaxDrafts
       \/ /\ name = "rewrite"
          /\ runStage[r] = "drafted"
    /\ runStage' = [runStage EXCEPT ![r] = name]
    /\ runIdx' = [runIdx EXCEPT ![r] = 1]
    /\ runPc' = [runPc EXCEPT ![r] = "get"]
    /\ drafts' = [drafts EXCEPT ![r] = IF name = "draft_response" THEN @ + 1 ELSE @]
    /\ UNCHANGED <<store, writer, assistant_id, got, prefs, taskVars, stageVars, graphVars>>

\* the stage goes on with what it read (prompt, external call) and returns
StageReturn(r) ==
    /\ runStage[r] \in StageNames
    /\ runPc[r] = "rest"
    /\ runStage' = [runStage EXCEPT ![r] =
                       IF runStage[r] = "draft_response" THEN "drafted" ELSE "idle"]
    /\ runIdx' = [runIdx EXCEPT ![r] = 1]
    /\ runPc' = [runPc EXCEPT ![r] = "get"]
    /\ got' = [got EXCEPT ![r] = [k \in StoreKeys |-> NotRead]]
    /\ prefs' = [prefs EXCEPT ![r] = [k \in StoreKeys |-> Unset]]
    /\ UNCHANGED <<store, writer, assistant_id, drafts, taskVars, stageVars, graphVars>>

\* the stage moves on to its next key, or to the rest of the stage
Advance(r) ==
    /\ IF runIdx[r] < Len(KeysOf(runStage[r]))
       THEN /\ runIdx' = [runIdx EXCEPT ![r] = @ + 1]
            /\ runPc' = [runPc EXCEPT ![r] = "get"]
       ELSE /\ runPc' = [runPc EXCEPT ![r] = "rest"]
            /\ UNCHANGED runIdx
    /\ UNCHANGED runStage

\* result = await store.aget(namespace, key); if result and "data" in result.value
StageGet(r) ==
    /\ runStage[r] \in StageNames
    /\ runPc[r] = "get"
    /\ LET key == RunKey(r)
           result == store[RunNs(r)][key]
       IN /\ got' = [got EXCEPT ![r][key] = result]
          /\ IF HasData(result)
             THEN /\ prefs' = [prefs EXCEPT ![r][key] = result.data]
                  /\ Advance(r)
             ELSE /\ runPc' = [runPc EXCEPT ![r] = "put"]
                  /\ UNCHANGED <<prefs, runIdx, runStage>>
    /\ UNCHANGED <<store, writer, assistant_id, drafts, taskVars, stageVars, graphVars>>

\* await store.aput(namespace, key, {"data": prompt_config[...]}); then use the default
StageSeed(r) ==
    /\ runStage[r] \in StageNames
    /\ runPc[r] = "put"
    /\ LET key == RunKey(r)
       IN /\ store' = [store EXCEPT ![RunNs(r)][key] = Item(DefaultOf(key))]
          /\ writer' = [writer EXCEPT ![RunNs(r)][key] = "stage"]
          /\ prefs' = [prefs EXCEPT ![r][key] = DefaultOf(key)]
    /\ Advance(r)
    /\ UNCHANGED <<got, assistant_id, drafts, taskVars, stageVars, graphVars>>

\* determine_what_to_update: one Send per selected memory type; a name that
\* is no key of MEMORY_TO_UPDATE_KEYS raises KeyError before anything is sent
DetermineWhatToUpdate(assistant_key, offered, types) ==
    /\ ~dispatched
    /\ dispatched' = TRUE
    /\ prompt_types' = offered
    /\ IF \E i \in 1..Len(types) : types[i] \notin DOMAIN MEMORY_TO_UPDATE_KEYS
       THEN UNCHANGED <<taskPc, taskKey>>
       ELSE /\ taskPc' = [t \in Tasks |-> IF t <= Len(types) THEN "get" ELSE "none"]
            /\ taskKey' = [t \in Tasks |->
                             IF t <= Len(types) THEN MEMORY_TO_UPDATE_KEYS[types[t]]
                             ELSE taskKey[t]]
    /\ taskNs' = [t \in Tasks |-> assistant_key]
    /\ UNCHANGED <<store, writer, runVars, stageVars, graphVars>>

\* update_general: result = await store.aget(namespace, key); result.value["data"]
UpdateGeneralGet(t) ==
    /\ taskPc[t] = "get"
    /\ LET result == store[taskNs[t]][taskKey[t]]
       IN taskPc' = [taskPc EXCEPT ![t] = IF HasData(result) THEN "llm" ELSE "failed"]
    /\ UNCHANGED <<store, writer, runVars, dispatched, taskKey, taskNs, prompt_types,
                   stageVars, graphVars>>

\* mutant: the revised prompt is stored whatever the signal
UpdateGeneralPut_AlwaysWrites(t, update_prompt, new_prompt) ==
    /\ taskPc[t] = "llm"
    /\ taskPc' = [taskPc EXCEPT ![t] = "done"]
    /\ store' = [store EXCEPT ![taskNs[t]][taskKey[t]] = ReflectionItem(new_prompt)]
    /\ writer' = [writer EXCEPT ![taskNs[t]][taskKey[t]] = "reflection"]
    /\ UNCHANGED <<runVars, dispatched, taskKey, taskNs, prompt_types, stageVars,
                   graphVars>>
\* update_general: the model answers; if output["update_prompt"]: await store.aput(...)
UpdateGeneralPut(t, update_prompt, new_prompt) ==
    /\ taskPc[t] = "llm"
    /\ taskPc' = [taskPc EXCEPT ![t] = "done"]
    /\ IF update_prompt
       THEN /\ store' = [store EXCEPT ![taskNs[t]][taskKey[t]] = ReflectionItem(new_prompt)]
            /\ writer' = [writer EXCEPT ![taskNs[t]][taskKey[t]] = "reflection"]
       ELSE UNCHANGED <<store, writer>>
    /\ UNCHANGED <<runVars, dispatched, taskKey, taskNs, prompt_types, stageVars,
                   graphVars>>

SeqsUpTo(S, n) == UNION {[1..m -> S] : m \in 0..n}

NextStore ==
    \/ \E r \in Runs, name \in StageNames : StageEnter(r, name)
    \/ \E r \in Runs : StageGet(r)
    \/ \E r \in Runs : StageSeed(r)
    \/ \E r \in Runs : StageReturn(r)
    \/ \E a \in Namespaces, offered \in OfferedTypes,
          types \in SeqsUpTo(SelectedNames, MaxSends) :
          DetermineWhatToUpdate(a, offered, types)
    \/ \E t \in Tasks : UpdateGeneralGet(t)
    \/ \E t \in Tasks, u \in BOOLEAN, p \in NewPrompts : UpdateGeneralPut(t, u, p)

\* no stage invocation of PART 5 is under way
StageIdle ==
    /\ email = [subject |-> << >>, page_content |-> << >>, from_email |-> "hr@corp.com"]
    /\ messages = << >>
    /\ stage = "none"
    /\ spc = "idle"
    /\ retries = 0
    /\ sleeps = << >>
    /\ calls = 0
    /\ failures = 0
    /\ overloads = 0
    /\ resp = "<none>"
    /\ err = [cls |-> "none"]
    /\ wrapperRaised = [cls |-> "none"]
    /\ stageRaised = [cls |-> "none"]
    /\ triage = [response |-> "<unset>"]
    /\ draft = [type |-> "none"]

InitStore == InitStoreVars /\ StageIdle /\ GraphIdle

StoreSpec == InitStore /\ [][NextStore]_vars

(***************************************************************************)
(* PART 5 -- one stage invocation and its retry wrapper                    *)
(* (triage.py, draft_response.py).                                         *)
(***************************************************************************)
max_retries == 5
initial_delay == 1

NoErr == [cls |-> "none"]
NoResp == "<none>"
NoToolCalls == "<no tool calls>"
NoDraft == [type |-> "none"]
NoTriage == [response |-> "<unset>"]

\* the exceptions an invocation of the external capability may raise
CapabilityErrors ==
    { [cls |-> "InternalServerError", overloaded |-> TRUE],
      [cls |-> "InternalServerError", overloaded |-> FALSE],
      [cls |-> "Exception", overloaded |-> FALSE] }
\* the exception raised by invocation number n
Raised(e, n) == [cls |-> e.cls, overloaded |-> e.overloaded, id |-> n]
\* raise ValueError("LLM did not return a tool call.")
NoToolCallError(n) == [cls |-> "ValueError", overloaded |-> FALSE, id |-> n]

\* what the classification capability may answer (JsonOutputParser does not validate)
TriageAnswers == {"no", "email", "notify", "question", "other"}
\* what the generation capability may answer: a tool call by name, or none
ToolNames == {"NewEmailDraft", "ResponseEmailDraft", "Question", "MeetingAssistant",
              "SendCalendarInvite", "Ignore", "Unrecognized"}
DraftAnswers == ToolNames \cup {NoToolCalls}
\* one invocation of the capability answers or raises
Answer(a) == [answer |-> a]
IsAnswer(outcome) == "answer" \in DOMAIN outcome
TriageOutcomes == {Answer(a) : a \in TriageAnswers} \cup CapabilityErrors
DraftOutcomes == {Answer(a) : a \in DraftAnswers} \cup CapabilityErrors

\* triage.py: the wrapper retries an overloaded InternalServerError only
TriageRetries_All(e, n) == n < max_retries
TriageRetries(e, n) ==
    e.cls = "InternalServerError" /\ e.overloaded /\ n < max_retries

\* draft_response.py: an InternalServerError is retried when overloaded, any
\* other exception always, while retries < max_retries
DraftRetries_OneMore(e, n) ==
    IF e.cls = "InternalServerError"
    THEN e.overloaded /\ n <= max_retries
    ELSE n <= max_retries
DraftRetries_NoValueError(e, n) ==
    IF e.cls = "InternalServerError"
    THEN e.overloaded /\ n < max_retries
    ELSE e.cls # "ValueError" /\ n < max_retries
DraftRetries(e, n) ==
    IF e.cls = "InternalServerError"
    THEN e.overloaded /\ n < max_retries
    ELSE n < max_retries

\* wait_time = delay * (2 ** (retries - 1)), retries already incremented
WaitTime_Doubled(n) == initial_delay * (2 ^ n)
WaitTime(n) == initial_delay * (2 ^ (n - 1))

\* mutant: the synthesized action is Ignore
FallbackDraft_Ignore(call_id) ==
    [type |-> "ai", tool |-> "Ignore", call_id |-> call_id]
\* the AIMessage the drafting stage synthesizes for a personal email
FallbackDraft(call_id) ==
    [type |-> "ai", tool |-> "ResponseEmailDraft", call_id |-> call_id]
\* raise ValueError(f"Failed to get valid tool call ... Last error: {e}") from e
DraftFailure_Unwrapped(e) == e
DraftFailure(e) == [cls |-> "ValueError", overloaded |-> FALSE, cause |-> e]

InitStageVars(emails) ==
    /\ email \in emails
    /\ messages \in { << >>, << [type |-> "human", id |-> "h1"] >> }
    /\ stage \in {"triage_input", "draft_response"}
    /\ spc = "start"
    /\ retries = 0
    /\ sleeps = << >>
    /\ calls = 0
    /\ failures = 0
    /\ overloads = 0
    /\ resp = NoResp
    /\ err = NoErr
    /\ wrapperRaised = NoErr
    /\ stageRaised = NoErr
    /\ triage = NoTriage
    /\ draft = NoDraft

\* mutant: every failed attempt is merged into the log before the retry
Failed_MergeOnRetry(e, retry) ==
    /\ err' = e
    /\ failures' = failures + 1
    /\ overloads' = IF e.cls = "InternalServerError" /\ e.overloaded
                    THEN overloads + 1 ELSE overloads
    /\ IF retry
       THEN /\ retries' = retries + 1
            /\ spc' = "sleep"
            /\ messages' = Append(messages, [type |-> "ai", tool |-> NoToolCalls,
                                             call_id |-> "llm"])
            /\ UNCHANGED <<wrapperRaised, stageRaised, draft>>
       ELSE /\ wrapperRaised' = e
            /\ UNCHANGED retries
            /\ IF stage = "triage_input"
               THEN /\ stageRaised' = e
                    /\ spc' = "failed"
                    /\ UNCHANGED <<draft, messages>>
               ELSE IF is_personal_email(email)
               THEN /\ draft' = FallbackDraft("response_draft_fallback")
                    /\ messages' = Append(messages, draft')
                    /\ spc' = "done"
                    /\ UNCHANGED stageRaised
               ELSE /\ stageRaised' = DraftFailure(e)
                    /\ spc' = "failed"
                    /\ UNCHANGED <<draft, messages>>

\* the wrapped function raised e: the wrapper retries (sleeping first) or re-raises
Failed(e, retry) ==
    /\ err' = e
    /\ failures' = failures + 1
    /\ overloads' = IF e.cls = "InternalServerError" /\ e.overloaded
                    THEN overloads + 1 ELSE overloads
    /\ IF retry
       THEN /\ retries' = retries + 1
            /\ spc' = "sleep"
            /\ UNCHANGED <<wrapperRaised, stageRaised, draft, messages>>
       ELSE /\ wrapperRaised' = e
            /\ UNCHANGED retries
            /\ IF stage = "triage_input"
               THEN \* nothing catches it in triage_input
                    /\ stageRaised' = e
                    /\ spc' = "failed"
                    /\ UNCHANGED <<draft, messages>>
               ELSE IF is_personal_email(email)
               THEN \* draft_response: except Exception, personal email
                    /\ draft' = FallbackDraft("response_draft_fallback")
                    /\ messages' = Append(messages, draft')
                    /\ spc' = "done"
                    /\ UNCHANGED stageRaised
               ELSE /\ stageRaised' = DraftFailure(e)
                    /\ spc' = "failed"
                    /\ UNCHANGED <<draft, messages>>

\* triage_input up to the external call: the pre-filter may settle the decision
TriageInput ==
    /\ stage = "triage_input"
    /\ spc = "start"
    /\ IF should_ignore_immediately(email)
       THEN /\ triage' = [response |-> "no", type |-> "RespondTo"]
            /\ messages' = << >>
            /\ spc' = "done"
       ELSE /\ spc' = "call"
            /\ UNCHANGED <<triage, messages>>
    /\ UNCHANGED <<email, stage, retries, sleeps, calls, failures, overloads, resp, err,
                   wrapperRaised, stageRaised, draft, storeVars, graphVars>>

\* one await func() of the triage wrapper: call_api, chain.ainvoke
TriageCallApi(outcome) ==
    /\ stage = "triage_input"
    /\ spc = "call"
    /\ calls' = calls + 1
    /\ IF IsAnswer(outcome)
       THEN /\ resp' = outcome.answer
            /\ triage' = [response |-> outcome.answer, type |-> "dict"]
            /\ messages' = << >>
            /\ spc' = "done"
            /\ UNCHANGED <<retries, failures, overloads, err, wrapperRaised, stageRaised, draft>>
       ELSE /\ resp' = NoResp
            /\ Failed(Raised(outcome, calls + 1),
                      TriageRetries(Raised(outcome, calls + 1), retries))
            /\ UNCHANGED triage
    /\ UNCHANGED <<email, stage, sleeps, storeVars, graphVars>>

\* draft_response up to the external call (the preference reads are PART 1)
DraftResponseStart ==
    /\ stage = "draft_response"
    /\ spc = "start"
    /\ spc' = "call"
    /\ UNCHANGED <<email, messages, stage, retries, sleeps, calls, failures, overloads, resp, err,
                   wrapperRaised, stageRaised, triage, draft, storeVars, graphVars>>

\* one await func() of the drafting wrapper: invoke_llm_with_retry, llm.ainvoke
InvokeLlmWithRetry(outcome) ==
    /\ stage = "draft_response"
    /\ spc = "call"
    /\ calls' = calls + 1
    /\ IF IsAnswer(outcome) /\ outcome.answer # NoToolCalls
       THEN /\ resp' = outcome.answer
            /\ draft' = [type |-> "ai", tool |-> outcome.answer, call_id |-> "llm"]
            /\ messages' = Append(messages, draft')
            /\ spc' = "done"
            /\ UNCHANGED <<retries, failures, overloads, err, wrapperRaised, stageRaised>>
       ELSE IF IsAnswer(outcome)
       THEN /\ resp' = NoToolCalls
            /\ IF is_personal_email(email)
               THEN /\ draft' = FallbackDraft("response_draft_tool_call")
                    /\ messages' = Append(messages, draft')
                    /\ spc' = "done"
                    /\ UNCHANGED <<retries, failures, overloads, err, wrapperRaised, stageRaised>>
               ELSE Failed(NoToolCallError(calls + 1),
                           DraftRetries(NoToolCallError(calls + 1), retries))
       ELSE /\ resp' = NoResp
            /\ Failed(Raised(outcome, calls + 1),
                      DraftRetries(Raised(outcome, calls + 1), retries))
    /\ UNCHANGED <<email, stage, sleeps, triage, storeVars, graphVars>>

\* await asyncio.sleep(wait_time), then the loop calls func again
RetrySleep ==
    /\ spc = "sleep"
    /\ sleeps' = Append(sleeps, WaitTime(retries))
    /\ spc' = "call"
    /\ UNCHANGED <<email, messages, stage, retries, calls, failures, overloads, resp, err,
                   wrapperRaised, stageRaised, triage, draft, storeVars, graphVars>>

(***************************************************************************)
(* The emails the stage specifications start from.                         *)
(***************************************************************************)
SubjectWords == {"Weekly", "NVIDIA", "news", "digest", "newsletter", "interview",
                 "invitation", "calendar", "invite", "hello"}
ContentWords == {"unsubscribe", "interview", "coffee"}

\* the promotional scenario of the specification's testable properties
ScenarioEmail ==
    [subject |-> <<"Weekly", "NVIDIA", "news", "digest", "-", "unsubscribe">>,
     page_content |-> <<"click", "here", "to", "unsubscribe">>,
     from_email |-> "news@nvidia.com"]

\* a subject only the personalized-content indicator matches
PersonalizedEmail ==
    [subject |-> <<"personalized", "for", "you">>,
     page_content |-> <<"unsubscribe">>,
     from_email |-> "news@nvidia.com"]

TriageEmails ==
    {ScenarioEmail, PersonalizedEmail} \cup
    { [subject |-> s, page_content |-> c, from_email |-> "news@nvidia.com"] :
        s \in SeqsUpTo(SubjectWords, MaxSubjectLen),
        c \in SeqsUpTo(ContentWords, MaxContentLen) }

SampleEmails ==
    { ScenarioEmail,
      [subject |-> <<"hello">>, page_content |-> <<"Hi", "coffee", "tomorrow">>,
       from_email |-> "sam@gmail.com"],
      [subject |-> <<"interview">>, page_content |-> <<"interview", "schedule">>,
       from_email |-> "hr@corp.com"],
      [subject |-> <<"newsletter">>, page_content |-> <<"unsubscribe", "here">>,
       from_email |-> "news@nvidia.com"],
      [subject |-> <<"lunch">>, page_content |-> <<"hello", "lunch", "tomorrow">>,
       from_email |-> "hr@corp.com"] }

\* the store of PART 1 at rest
StoreIdle ==
    /\ InitStoreVars
    /\ assistant_id = [r \in Runs |-> NoAssistantId]

NextTriage ==
    \/ TriageInput
    \/ \E outcome \in TriageOutcomes : TriageCallApi(outcome)
    \/ RetrySleep

NextRetry ==
    \/ TriageInput
    \/ \E outcome \in TriageOutcomes : TriageCallApi(outcome)
    \/ DraftResponseStart
    \/ \E outcome \in DraftOutcomes : InvokeLlmWithRetry(outcome)
    \/ RetrySleep

\* the triage stage on every generated email
InitTriage ==
    StoreIdle /\ InitStageVars(TriageEmails) /\ stage = "triage_input" /\ GraphIdle
TriageSpec == InitTriage /\ [][NextTriage]_vars

\* both stages with their retry wrappers on the sample emails
InitRetry == StoreIdle /\ InitStageVars(SampleEmails) /\ GraphIdle
RetrySpec == InitRetry /\ [][NextRetry]_vars

\* one whole invocation of draft_response by run 1: the preference reads of
\* PART 1, then the retry wrapper around the external call, then the return
Stored == {None, Item("stored")}
InitDraft ==
    /\ store \in [Namespaces -> [StoreKeys -> Stored]]
    /\ \A ns \in Namespaces, k \in StoreKeys :
          store[ns][k] # None => (ns = Namespace("a1") /\ k \in {"schedule_preferences", "response_preferences"})
    /\ writer = [ns \in Namespaces |-> [k \in StoreKeys |-> "none"]]
    /\ assistant_id \in [Runs -> AssistantIds]
    /\ assistant_id[2] = NoAssistantId
    /\ runStage = [r \in Runs |-> "idle"]
    /\ runIdx = [r \in Runs |-> 1]
    /\ runPc = [r \in Runs |-> "get"]
    /\ got = [r \in Runs |-> [k \in StoreKeys |-> NotRead]]
    /\ prefs = [r \in Runs |-> [k \in StoreKeys |-> Unset]]
    /\ drafts = [r \in Runs |-> 0]
    /\ dispatched = FALSE
    /\ taskPc = [t \in Tasks |-> "none"]
    /\ taskKey = [t \in Tasks |-> "rewrite_instructions"]
    /\ taskNs = [t \in Tasks |-> "default"]
    /\ prompt_types = {}
    /\ InitStageVars(SampleEmails)
    /\ stage = "draft_response"
    /\ GraphIdle

NextDraft ==
    \/ spc = "start" /\ StageEnter(1, "draft_response")
    \/ StageGet(1)
    \/ StageSeed(1)
    \/ runStage[1] = "draft_response" /\ runPc[1] = "rest" /\ DraftResponseStart
    \/ \E outcome \in DraftOutcomes : InvokeLlmWithRetry(outcome)
    \/ RetrySleep
    \/ spc \in {"done", "failed"} /\ StageReturn(1)

DraftSpec == InitDraft /\ [][NextDraft]_vars

(***************************************************************************)
(* PART 6 -- one run of the main graph (graph.py, gmail_agent_node.py,     *)
(* rewrite.py).  The engine loop, the merge rule of the action log and the *)
(* human-inbox nodes are not part of the sources; they follow sections 3,  *)
(* 4.1 and 4.6 of the specification.                                       *)
(***************************************************************************)
MaxSteps == 9    \* the maximum step bound of a run

\* --- the entries of state["messages"] ---
HumanMessage(id) == [type |-> "human", id |-> id]
ToolMessage(id, content, tool_call_id) ==
    [type |-> "tool", id |-> id, content |-> content, tool_call_id |-> tool_call_id]
RemoveMessage(id) == [type |-> "remove", id |-> id]
AIMessage(id, tool_calls) ==
    [type |-> "ai", id |-> id, content |-> "", tool_calls |-> tool_calls]

\* the id of the tool call the capability issues in step n
CallId(n) == <<"call", n>>
\* the arguments of a tool call of the capability
DraftArgs == [content |-> "draft", new_recipients |-> "[]"]
\* a tool call as the capability returns it
ToolCall(id, name) == [id |-> id, name |-> name, args |-> DraftArgs]
\* the tool call draft_response writes itself: its key is "arguments", not "args"
FallbackToolCall(call_id) ==
    [id |-> <<call_id, 0>>, name |-> "ResponseEmailDraft",
     arguments |-> [content |-> "personal", new_recipients |-> << >>]]

\* not prediction.tool_calls
HasToolCalls(m) == "tool_calls" \in DOMAIN m /\ m.tool_calls # << >>

\* mutant: the field has no merge rule, an update overwrites the log
MergeOne_Overwrite(log, m) ==
    LET Keep(x) == x.id # m.id IN
    IF m.type = "remove" THEN SelectSeq(log, Keep)
    ELSE << m >>
\* the merge rule of the action log: an entry that removes by id, an entry
\* whose id is in the log replaces that entry in place, any other is appended
MergeOne(log, m) ==
    IF m.type = "remove"
    THEN LET Keep(x) == x.id # m.id IN SelectSeq(log, Keep)
    ELSE IF \E i \in 1..Len(log) : log[i].id = m.id
    THEN [i \in 1..Len(log) |-> IF log[i].id = m.id THEN m ELSE log[i]]
    ELSE Append(log, m)
RECURSIVE add_messages(_, _)
\* the entries of right are merged one by one, from the first to the last
\* (merged and rest are bound to values, so each is evaluated once)
add_messages(left, right) ==
    IF right = << >> THEN left
    ELSE CHOOSE log \in {add_messages(merged, rest) :
                            merged \in {MergeOne(left, Head(right))},
                            rest \in {Tail(right)}} : TRUE

\* the ids of the entries of a log, in order
Ids(log) == [i \in 1..Len(log) |-> log[i].id]

\* --- the values of state["triage"] ---
RespondTo(response) == [response |-> response, type |-> "RespondTo"]
\* what JsonOutputParser returns: the parsed JSON object
ParsedJson(response) == [response |-> response, type |-> "dict"]
NoneTriage == [response |-> "<none>", type |-> "None"]
\* state["triage"].response can be read
HasResponse(t) == t.type = "RespondTo"

\* --- the routing functions ---
AttributeError == "<AttributeError>"

gmail_keywords ==
    { <<"draft">>, <<"gmail">>, <<"email", "drafts">>, <<"save", "email">>,
      <<"prepare", "email">>, <<"write", "email">> }

should_use_gmail_agent(state) ==
    LET email_content == LowerText(state.email.page_content)
        email_subject == LowerText(state.email.subject)
    IN IF /\ state.triage.type = "RespondTo"
          /\ state.triage.response = "email"
          /\ \E keyword \in gmail_keywords :
                Search(<<keyword>>, email_content) \/ Search(<<keyword>>, email_subject)
       THEN "gmail_agent_node"
       ELSE "draft_response"

\* the notification is about a career meeting invitation
CareerInvitation(subject) ==
    /\ Contains(subject, "invitation")
    /\ \E time_marker \in {"@", "at", "pm", "am"} : Contains(subject, time_marker)
    /\ \E career_term \in {"assignment", "interview", "review", "job"} :
          Contains(subject, career_term)

route_after_triage(state) ==
    LET subject == LowerText(state.email.subject) IN
    IF should_ignore_immediately(state.email) THEN "mark_as_read_node"
    ELSE IF ~HasResponse(state.triage) THEN AttributeError
    ELSE CASE state.triage.response = "email" -> should_use_gmail_agent(state)
           [] state.triage.response = "no" -> "mark_as_read_node"
           [] state.triage.response = "notify" ->
                 IF CareerInvitation(subject) THEN "draft_response" ELSE "notify"
           [] state.triage.response = "question" -> "draft_response"
           [] OTHER -> "mark_as_read_node"

\* mutant: Ignore is not listed and falls to the recovery node
take_action_IgnoreUnlisted(state) ==
    LET prediction == state.messages[Len(state.messages)] IN
    IF ~HasToolCalls(prediction) THEN "mark_as_read_node"
    ELSE LET tool_call == prediction.tool_calls[1] IN
         CASE tool_call.name = "Question" -> "send_message"
           [] tool_call.name = "ResponseEmailDraft" -> "rewrite"
           [] tool_call.name = "MeetingAssistant" -> "find_meeting_time"
           [] tool_call.name = "SendCalendarInvite" -> "send_cal_invite"
           [] OTHER -> "bad_tool_name"

\* mutant: an unknown tool name is treated like Ignore
take_action_DefaultIgnore(state) ==
    LET prediction == state.messages[Len(state.messages)] IN
    IF ~HasToolCalls(prediction) THEN "mark_as_read_node"
    ELSE LET tool_call == prediction.tool_calls[1] IN
         CASE tool_call.name = "Question" -> "send_message"
           [] tool_call.name = "ResponseEmailDraft" -> "rewrite"
           [] tool_call.name = "MeetingAssistant" -> "find_meeting_time"
           [] tool_call.name = "SendCalendarInvite" -> "send_cal_invite"
           [] OTHER -> "mark_as_read_node"

take_action(state) ==
    LET prediction == state.messages[Len(state.messages)] IN
    IF ~HasToolCalls(prediction) THEN "mark_as_read_node"
    ELSE LET tool_call == prediction.tool_calls[1] IN
         CASE tool_call.name = "Question" -> "send_message"
           [] tool_call.name = "ResponseEmailDraft" -> "rewrite"
           [] tool_call.name = "Ignore" -> "mark_as_read_node"
           [] tool_call.name = "MeetingAssistant" -> "find_meeting_time"
           [] tool_call.name = "SendCalendarInvite" -> "send_cal_invite"
           [] OTHER -> "bad_tool_name"

\* mutant: an approved calendar action goes back to the drafting stage
enter_after_human_NoInvite(state) ==
    LET messages_ == state.messages IN
    IF Len(messages_) = 0
    THEN IF ~HasResponse(state.triage) THEN AttributeError
         ELSE IF state.triage.response = "notify" THEN "mark_as_read_node"
         ELSE "draft_response"
    ELSE LET m == messages_[Len(messages_)] IN
         IF m.type \in {"tool", "human"} THEN "draft_response"
         ELSE IF ~HasToolCalls(m) THEN "draft_response"
         ELSE LET execute == m.tool_calls[1] IN
              CASE execute.name = "ResponseEmailDraft" -> "send_email_node"
                [] execute.name = "Ignore" -> "mark_as_read_node"
                [] OTHER -> "draft_response"

\* mutant: a human entry at the end of the log ends the run
enter_after_human_AnswerIgnored(state) ==
    LET messages_ == state.messages IN
    IF Len(messages_) = 0
    THEN IF ~HasResponse(state.triage) THEN AttributeError
         ELSE IF state.triage.response = "notify" THEN "mark_as_read_node"
         ELSE "draft_response"
    ELSE LET m == messages_[Len(messages_)] IN
         IF m.type = "tool" THEN "draft_response"
         ELSE IF m.type = "human" THEN "mark_as_read_node"
         ELSE IF ~HasToolCalls(m) THEN "draft_response"
         ELSE LET execute == m.tool_calls[1] IN
              CASE execute.name = "ResponseEmailDraft" -> "send_email_node"
                [] execute.name = "SendCalendarInvite" -> "send_cal_invite_node"
                [] execute.name = "Ignore" -> "mark_as_read_node"
                [] OTHER -> "draft_response"

\* mutant: an approved reply is treated like Ignore
enter_after_human_NoDelivery(state) ==
    LET messages_ == state.messages IN
    IF Len(messages_) = 0
    THEN IF ~HasResponse(state.triage) THEN AttributeError
         ELSE IF state.triage.response = "notify" THEN "mark_as_read_node"
         ELSE "draft_response"
    ELSE LET m == messages_[Len(messages_)] IN
         IF m.type \in {"tool", "human"} THEN "draft_response"
         ELSE IF ~HasToolCalls(m) THEN "draft_response"
         ELSE LET execute == m.tool_calls[1] IN
              CASE execute.name = "SendCalendarInvite" -> "send_cal_invite_node"
                [] execute.name \in {"Ignore", "ResponseEmailDraft"} -> "mark_as_read_node"
                [] OTHER -> "draft_response"

\* mutant: a human reply sends the run back to the triage stage
enter_after_human_Retriage(state) ==
    LET messages_ == state.messages IN
    IF Len(messages_) = 0
    THEN IF ~HasResponse(state.triage) THEN AttributeError
         ELSE IF state.triage.response = "notify" THEN "mark_as_read_node"
         ELSE "draft_response"
    ELSE LET m == messages_[Len(messages_)] IN
         IF m.type = "human" THEN "triage_input"
         ELSE IF m.type = "tool" THEN "draft_response"
         ELSE IF ~HasToolCalls(m) THEN "draft_response"
         ELSE LET execute == m.tool_calls[1] IN
              CASE execute.name = "ResponseEmailDraft" -> "send_email_node"
                [] execute.name = "SendCalendarInvite" -> "send_cal_invite_node"
                [] execute.name = "Ignore" -> "mark_as_read_node"
                [] OTHER -> "draft_response"

\* mutant: a resume with an empty log always ends the run
enter_after_human_EmptyLogEnds(state) ==
    LET messages_ == state.messages IN
    IF Len(messages_) = 0
    THEN IF ~HasResponse(state.triage) THEN AttributeError
         ELSE "mark_as_read_node"
    ELSE LET m == messages_[Len(messages_)] IN
         IF m.type \in {"tool", "human"} THEN "draft_response"
         ELSE IF ~HasToolCalls(m) THEN "draft_response"
         ELSE LET execute == m.tool_calls[1] IN
              CASE execute.name = "ResponseEmailDraft" -> "send_email_node"
                [] execute.name = "SendCalendarInvite" -> "send_cal_invite_node"
                [] execute.name = "Ignore" -> "mark_as_read_node"
                [] OTHER -> "draft_response"

enter_after_human(state) ==
    LET messages_ == state.messages IN
    IF Len(messages_) = 0
    THEN IF ~HasResponse(state.triage) THEN AttributeError
         ELSE IF state.triage.response = "notify" THEN "mark_as_read_node"
         ELSE "draft_response"
    ELSE LET m == messages_[Len(messages_)] IN
         IF m.type \in {"tool", "human"} THEN "draft_response"
         ELSE IF ~HasToolCalls(m) THEN "draft_response"
         ELSE LET execute == m.tool_calls[1] IN
              CASE execute.name = "ResponseEmailDraft" -> "send_email_node"
                [] execute.name = "SendCalendarInvite" -> "send_cal_invite_node"
                [] execute.name = "Ignore" -> "mark_as_read_node"
                [] execute.name = "Question" -> "draft_response"
                [] OTHER -> "draft_response"

\* --- the graph: nodes, edges, the declared successors of the routers ---
Nodes ==
    {"initialize", "human_node", "triage_input", "draft_response", "gmail_agent_node",
     "send_message", "rewrite", "mark_as_read_node", "send_email_draft",
     "send_email_node", "bad_tool_name", "notify", "send_cal_invite_node",
     "send_cal_invite", "find_meeting_time"}
END == "END"
\* mutant: the delivery of a reply ends the run
Edge_SendEmailEnds(a) ==
    CASE a = "initialize" -> "triage_input"
      [] a = "gmail_agent_node" -> "human_node"
      [] a = "send_message" -> "human_node"
      [] a = "send_cal_invite" -> "human_node"
      [] a = "find_meeting_time" -> "human_node"
      [] a = "bad_tool_name" -> "draft_response"
      [] a = "send_cal_invite_node" -> "human_node"
      [] a = "send_email_node" -> END
      [] a = "rewrite" -> "send_email_draft"
      [] a = "send_email_draft" -> "human_node"
      [] a = "mark_as_read_node" -> END
      [] a = "notify" -> "human_node"
\* graph_builder.add_edge(a, b)
Edge(a) ==
    CASE a = "initialize" -> "triage_input"
      [] a = "gmail_agent_node" -> "human_node"
      [] a = "send_message" -> "human_node"
      [] a = "send_cal_invite" -> "human_node"
      [] a = "find_meeting_time" -> "human_node"
      [] a = "bad_tool_name" -> "draft_response"
      [] a = "send_cal_invite_node" -> "human_node"
      [] a = "send_email_node" -> "mark_as_read_node"
      [] a = "rewrite" -> "send_email_draft"
      [] a = "send_email_draft" -> "human_node"
      [] a = "mark_as_read_node" -> END
      [] a = "notify" -> "human_node"
\* the nodes graph_builder.add_edge gives an unconditional edge
EdgeSources ==
    {"initialize", "gmail_agent_node", "send_message", "send_cal_invite",
     "find_meeting_time", "bad_tool_name", "send_cal_invite_node", "send_email_node",
     "rewrite", "send_email_draft", "mark_as_read_node", "notify"}
\* the Literal[...] return annotation of each routing function
Declared(a) ==
    CASE a = "triage_input" ->
            {"draft_response", "gmail_agent_node", "mark_as_read_node", "notify"}
      [] a = "draft_response" ->
            {"send_message", "rewrite", "mark_as_read_node", "find_meeting_time",
             "send_cal_invite", "bad_tool_name"}
      [] a = "human_node" ->
            {"mark_as_read_node", "draft_response", "send_email_node",
             "send_cal_invite_node"}
\* graph_builder.add_conditional_edges(a, f)
Route(a, state) ==
    CASE a = "triage_input" -> route_after_triage(state)
      [] a = "draft_response" -> take_action(state)
      [] a = "human_node" -> enter_after_human(state)
\* mutant: notify has conditional edges besides its edge to human_node
Routers_NotifyToo == {"triage_input", "draft_response", "human_node", "notify"}
Routers == {"triage_input", "draft_response", "human_node"}
\* the successor of node a on the state its update was merged into
Successor(a, state) == IF a \in Routers THEN Route(a, state) ELSE Edge(a)

\* --- the engine: one step runs a node, merges its update, picks the successor ---
stageOnly == <<stage, spc, retries, sleeps, calls, failures, overloads, resp, err,
               wrapperRaised, stageRaised>>

\* the engine is about to execute node name
Running(name) == status = "running" /\ node = name /\ steps < MaxSteps

\* node name returned: its update is merged (m2, t2, d2 are the fields after
\* the merge), eff are the deliveries it made, res is 1 for a resumed node
Merge(name, m2, t2, d2, eff, res) ==
    LET succ == Successor(name, [email |-> email, messages |-> m2, triage |-> t2]) IN
    /\ messages' = m2
    /\ triage' = t2
    /\ draft' = d2
    /\ effects' = effects \o eff
    /\ steps' = steps + 1
    /\ last' = name
    /\ visits' = IF name = "human_node" THEN visits + 1 ELSE visits
    /\ resumes' = resumes + res
    /\ removed' = removed \cup ({messages[i].id : i \in 1..Len(messages)}
                                   \ {m2[i].id : i \in 1..Len(m2)})
    /\ IF succ = AttributeError
       THEN /\ status' = "failed" /\ failure' = "AttributeError" /\ node' = name
       ELSE IF succ \notin Nodes \cup {END}
       THEN /\ status' = "failed" /\ failure' = "ConfigurationError" /\ node' = name
       ELSE IF succ = END
       THEN /\ status' = "ended" /\ node' = END /\ UNCHANGED failure
       ELSE /\ status' = "running" /\ node' = succ /\ UNCHANGED failure
    /\ UNCHANGED <<email, stageOnly, storeVars>>

\* node name raised cls after the deliveries eff: the run fails, nothing is merged
Fail(name, cls, eff) ==
    /\ status' = "failed"
    /\ failure' = cls
    /\ last' = name
    /\ steps' = steps + 1
    /\ effects' = effects \o eff
    /\ UNCHANGED <<node, resumes, visits, removed, email, messages, triage, draft,
                   stageOnly, storeVars>>

\* --- the nodes ---
NoEmail == [absent |-> TRUE]
AbsentTriage == [response |-> "<absent>", type |-> "absent"]

\* mutant: a state without email is passed on to the triage stage
initialize_state_node_NoCheck ==
    /\ Running("initialize")
    /\ Merge("initialize", messages,
             IF triage = AbsentTriage THEN RespondTo("no") ELSE triage,
             draft, << >>, 0)
initialize_state_node ==
    /\ Running("initialize")
    /\ IF email = NoEmail
       THEN Fail("initialize", "ValueError", << >>)
       ELSE Merge("initialize", messages,
                  IF triage = AbsentTriage THEN RespondTo("no") ELSE triage,
                  draft, << >>, 0)

\* mutant: the latest entry is kept
delete_messages_KeepLast(log) == [i \in 1..(Len(log) - 1) |-> RemoveMessage(log[i].id)]
\* [RemoveMessage(id=m.id) for m in state["messages"]]
delete_messages(log) == [i \in 1..Len(log) |-> RemoveMessage(log[i].id)]

\* what the triage stage ends with when the classifier is called: the parsed
\* answer, or the error of the retry wrapper
TriageResults ==
    {ParsedJson(a) : a \in TriageAnswers} \cup {RespondTo(a) : a \in TriageAnswers}
    \cup {[type |-> "error"]}

triage_input(result) ==
    /\ Running("triage_input")
    /\ IF should_ignore_immediately(email)
       THEN /\ result = RespondTo("no")
            /\ Merge("triage_input", add_messages(messages, delete_messages(messages)),
                     RespondTo("no"), draft, << >>, 0)
       ELSE IF result.type = "error"
       THEN Fail("triage_input", "InternalServerError", << >>)
       ELSE Merge("triage_input", add_messages(messages, delete_messages(messages)),
                  result, draft, << >>, 0)

\* the names the generation capability may answer with in a run of the graph
GraphToolNames == ToolNames \cup {"Question:"}
\* what the drafting stage ends with: a tool call of the capability, the
\* synthesized reply for a personal email, or an error
DraftResults ==
    {[kind |-> "tool", name |-> n] : n \in GraphToolNames}
    \cup {[kind |-> "fallback", name |-> c] :
             c \in {"response_draft_tool_call", "response_draft_fallback"}}
    \cup {[kind |-> "error", name |-> "ValueError"]}

\* the AIMessage the drafting stage returns in step n
DraftMessage(result, n) ==
    IF result.kind = "tool"
    THEN AIMessage(n, << ToolCall(CallId(n), result.name) >>)
    ELSE AIMessage(n, << FallbackToolCall(result.name) >>)

draft_response(result) ==
    /\ Running("draft_response")
    /\ result.kind = "fallback" => is_personal_email(email)
    /\ IF result.kind = "error"
       THEN Fail("draft_response", result.name, << >>)
       ELSE LET msg == DraftMessage(result, steps + 1) IN
            Merge("draft_response", add_messages(messages, <<msg>>), triage, msg,
                  << >>, 0)

\* name.replace(":", "")
StripColon(name) == IF name = "Question:" THEN "Question" ELSE name

bad_tool_name ==
    /\ Running("bad_tool_name")
    /\ LET last_message == messages[Len(messages)]
           tool_call == last_message.tool_calls[1]
           renamed == [last_message EXCEPT
                          !.tool_calls[1].name = StripColon(tool_call.name)]
       IN Merge("bad_tool_name",
                add_messages(messages,
                   << renamed,
                      ToolMessage(steps + 1, "Could not find tool", tool_call.id) >>),
                triage, draft, << >>, 0)

\* mutant: the rewritten arguments hold the content only
RewrittenMessage_ContentOnly(prev_message, rewritten_content) ==
    [type |-> "ai", id |-> prev_message.id, content |-> prev_message.content,
     tool_calls |-> << [id |-> prev_message.tool_calls[1].id,
                        name |-> prev_message.tool_calls[1].name,
                        args |-> [content |-> rewritten_content]] >>]
\* the entry rewrite returns: prev_message with the content argument replaced
RewrittenMessage(prev_message, rewritten_content) ==
    [type |-> "ai", id |-> prev_message.id, content |-> prev_message.content,
     tool_calls |-> << [id |-> prev_message.tool_calls[1].id,
                        name |-> prev_message.tool_calls[1].name,
                        args |-> [prev_message.tool_calls[1].args EXCEPT
                                     !.content = rewritten_content]] >>]

\* result: "ok", or the error of the rewrite capability or of its parsing
rewrite(result) ==
    /\ Running("rewrite")
    /\ LET prev_message == messages[Len(messages)] IN
       IF "args" \notin DOMAIN prev_message.tool_calls[1]
       THEN result = "error" /\ Fail("rewrite", "KeyError", << >>)
       ELSE IF result = "error"
       THEN Fail("rewrite", "Exception", << >>)
       ELSE Merge("rewrite",
                  add_messages(messages, << RewrittenMessage(prev_message, "rewritten") >>),
                  triage, draft, << >>, 0)

\* the nodes of the human inbox: each asks the human and waits for the answer
InboxNodes == {"send_message", "send_email_draft", "notify", "send_cal_invite"}
\* what the human answers: "accept" adds no entry, "respond" appends one
HumanDecisions == {"accept", "respond"}

\* the run reaches a node of the human inbox: the loop stops
Interrupt ==
    /\ status = "running"
    /\ node \in InboxNodes
    /\ steps < MaxSteps
    /\ status' = "suspended"
    /\ UNCHANGED <<node, steps, last, failure, resumes, visits, effects, removed,
                   stageVars, storeVars>>

\* the external resume call: the inbox node returns the human decision
Resume(decision) ==
    /\ status = "suspended"
    /\ Merge(node,
             IF decision = "respond"
             THEN add_messages(messages, << HumanMessage(steps + 1) >>)
             ELSE messages,
             triage, IF decision = "respond" THEN NoDraft ELSE draft, << >>, 1)

\* result: "ok" or "error"
find_meeting_time(result) ==
    /\ Running("find_meeting_time")
    /\ IF result = "error"
       THEN Fail("find_meeting_time", "Exception", << >>)
       ELSE LET tool_call == messages[Len(messages)].tool_calls[1] IN
            Merge("find_meeting_time",
                  add_messages(messages,
                     << ToolMessage(steps + 1, "meeting times", tool_call.id) >>),
                  triage, draft, << >>, 0)

\* what llm_with_tools.ainvoke answers in gmail_agent_node
GmailResults == {"draft_gmail_message", "search_gmail_drafts", NoToolCalls, "error"}

gmail_agent_node(result) ==
    /\ Running("gmail_agent_node")
    /\ IF result = "error"
       THEN Fail("gmail_agent_node", "Exception", << >>)
       ELSE Merge("gmail_agent_node",
                  add_messages(messages,
                     << AIMessage(steps + 1,
                           IF result = NoToolCalls THEN << >>
                           ELSE << ToolCall(CallId(steps + 1), result) >>) >>),
                  triage, draft, << >>, 0)

human_node ==
    /\ Running("human_node")
    /\ Merge("human_node", add_messages(messages, messages), triage, draft, << >>, 0)

\* result: "ok", or "error" when send_email raises
send_email_node(result) ==
    /\ Running("send_email_node")
    /\ LET tool_call == messages[Len(messages)].tool_calls[1] IN
       IF "args" \notin DOMAIN tool_call
       THEN result = "error" /\ Fail("send_email_node", "KeyError", << >>)
       ELSE IF result = "error"
       THEN Fail("send_email_node", "Exception", << >>)
       ELSE Merge("send_email_node", add_messages(messages, messages), triage, draft,
                  << "send_email" >>, 0)

\* mutant: a failed delivery leaves no entry in the log
send_cal_invite_node_Silent(result) ==
    /\ Running("send_cal_invite_node")
    /\ LET tool_call == messages[Len(messages)].tool_calls[1]
       IN Merge("send_cal_invite_node",
                IF result = "ok"
                THEN add_messages(messages, << ToolMessage(steps + 1, "Sent calendar invite!",
                                                           tool_call.id) >>)
                ELSE messages,
                triage, draft,
                IF result = "ok" THEN << "send_calendar_invite" >> ELSE << >>, 0)
\* result: "ok", or "error" when send_calendar_invite raises
send_cal_invite_node(result) ==
    /\ Running("send_cal_invite_node")
    /\ LET tool_call == messages[Len(messages)].tool_calls[1]
           message == IF result = "ok" THEN "Sent calendar invite!"
                      ELSE "Got the following error"
       IN Merge("send_cal_invite_node",
                add_messages(messages, << ToolMessage(steps + 1, message, tool_call.id) >>),
                triage, draft,
                IF result = "ok" THEN << "send_calendar_invite" >> ELSE << >>, 0)

\* result: "ok", or "error" when mark_as_read raises
mark_as_read_node(result) ==
    /\ Running("mark_as_read_node")
    /\ IF result = "error"
       THEN Fail("mark_as_read_node", "Exception", << >>)
       ELSE Merge("mark_as_read_node", messages, triage, draft, << "mark_as_read" >>, 0)

\* mutant: at the step bound the loop stops without a word
StepLimit_Silent ==
    /\ status = "running"
    /\ steps >= MaxSteps
    /\ UNCHANGED vars
\* the step bound is reached before END: the run fails
StepLimit ==
    /\ status = "running"
    /\ steps >= MaxSteps
    /\ status' = "failed"
    /\ failure' = "GraphRecursionError"
    /\ UNCHANGED <<node, steps, last, resumes, visits, effects, removed,
                   stageVars, storeVars>>

\* --- the runs ---
GraphEmails ==
    { [subject |-> <<"newsletter">>, page_content |-> <<"unsubscribe", "here">>,
       from_email |-> "news@nvidia.com"],
      [subject |-> <<"hello">>, page_content |-> <<"Hi", "coffee", "tomorrow">>,
       from_email |-> "sam@gmail.com"],
      [subject |-> <<"interview">>, page_content |-> <<"interview", "schedule">>,
       from_email |-> "hr@corp.com"],
      [subject |-> <<"draft">>, page_content |-> <<"schedule">>,
       from_email |-> "hr@corp.com"],
      [subject |-> <<"review", "invitation">>, page_content |-> <<"schedule">>,
       from_email |-> "hr@corp.com"] }

Results == {"ok", "error"}

InitGraph ==
    /\ StoreIdle
    /\ email \in GraphEmails \cup {NoEmail}
    /\ messages \in { << >>, << HumanMessage(0) >> }
    /\ triage \in {AbsentTriage, NoneTriage}
    /\ draft = NoDraft
    /\ stage = "none" /\ spc = "idle" /\ retries = 0 /\ sleeps = << >>
    /\ calls = 0 /\ failures = 0 /\ overloads = 0
    /\ resp = NoResp /\ err = NoErr /\ wrapperRaised = NoErr /\ stageRaised = NoErr
    /\ node = "initialize"
    /\ status = "running"
    /\ steps = 0
    /\ last = "none"
    /\ failure = "none"
    /\ resumes = 0
    /\ visits = 0
    /\ effects = << >>
    /\ removed = {}

NextGraph ==
    \/ initialize_state_node
    \/ \E result \in TriageResults : triage_input(result)
    \/ \E result \in DraftResults : draft_response(result)
    \/ bad_tool_name
    \/ \E result \in Results : rewrite(result)
    \/ Interrupt
    \/ \E decision \in HumanDecisions : Resume(decision)
    \/ \E result \in Results : find_meeting_time(result)
    \/ \E result \in GmailResults : gmail_agent_node(result)
    \/ human_node
    \/ \E result \in Results : send_email_node(result)
    \/ \E result \in Results : send_cal_invite_node(result)
    \/ \E result \in Results : mark_as_read_node(result)
    \/ StepLimit

GraphSpec == InitGraph /\ [][NextGraph]_vars

\* the steps the engine takes by itself: every step but the external resume call
EngineNext ==
    \/ initialize_state_node
    \/ \E result \in TriageResults : triage_input(result)
    \/ \E result \in DraftResults : draft_response(result)
    \/ bad_tool_name
    \/ \E result \in Results : rewrite(result)
    \/ Interrupt
    \/ \E result \in Results : find_meeting_time(result)
    \/ \E result \in GmailResults : gmail_agent_node(result)
    \/ human_node
    \/ \E result \in Results : send_email_node(result)
    \/ \E result \in Results : send_cal_invite_node(result)
    \/ \E result \in Results : mark_as_read_node(result)
    \/ StepLimit
\* the engine keeps stepping while a step is possible; the human may never answer
GraphFairSpec == GraphSpec /\ WF_vars(EngineNext)

\* --- the routing functions on their own ---
\* the logs a routing function is applied to: empty, or ending with a human
\* entry, a tool-result entry, an AI entry without tool calls, or an AI entry
\* calling one of the tools
RouteLogs ==
    { << >>, << HumanMessage(1) >>, << AIMessage(1, << >>) >>,
      << AIMessage(1, << ToolCall(CallId(1), "Question") >>),
         ToolMessage(2, "result", CallId(1)) >> }
    \cup { << AIMessage(1, << ToolCall(CallId(1), n) >>) >> : n \in GraphToolNames }
\* the values of state["triage"] a routing function is applied to
RouteTriages ==
    {RespondTo(a) : a \in TriageAnswers} \cup {ParsedJson(a) : a \in TriageAnswers}

InitRoute ==
    /\ StoreIdle
    /\ email \in GraphEmails
    /\ messages \in RouteLogs
    /\ triage \in RouteTriages
    /\ draft = NoDraft
    /\ stage = "none" /\ spc = "idle" /\ retries = 0 /\ sleeps = << >>
    /\ calls = 0 /\ failures = 0 /\ overloads = 0
    /\ resp = NoResp /\ err = NoErr /\ wrapperRaised = NoErr /\ stageRaised = NoErr
    /\ node \in Routers
    /\ node = "draft_response" => messages # << >>
    \* a state past the triage router holds a decision that router could read
    /\ node # "triage_input" => HasResponse(triage)
    /\ status = "running"
    /\ steps = 0
    /\ last = "none"
    /\ failure = "none"
    /\ resumes = 0
    /\ visits = 0
    /\ effects = << >>
    /\ removed = {}

\* the routing function of node a is applied to the state as it is
ApplyRoute(a) ==
    /\ Running(a)
    /\ last = "none"
    /\ Merge(a, messages, triage, draft, << >>, 0)

NextRoute ==
    \/ \E a \in Routers : ApplyRoute(a)
    \/ \E result \in Results : mark_as_read_node(result)

RouteSpec == InitRoute /\ [][NextRoute]_vars

(***************************************************************************)
(* Claims about the preference store (checked under StoreSpec).            *)
(***************************************************************************)

\* run r takes its aget step for key k in this step
ReadsNow(r, k) == got[r][k] = NotRead /\ got'[r][k] # NotRead
\* run r settles the text it uses for key k in this step
SettlesNow(r, k) == prefs[r][k] = Unset /\ prefs'[r][k] # Unset

\* C1: once a reflection task has written a revised value to a key, no later
\* seeding write of a primary run replaces it with the static default: the
\* last writer of the key stays the reflection subsystem, so every later read
\* returns a reflection-written value.
C1_NoLostUpdate ==
    [][\A ns \in Namespaces, k \in StoreKeys :
          writer[ns][k] = "reflection" =>
             /\ writer'[ns][k] = "reflection"
             /\ "data" \in DOMAIN store'[ns][k]
             /\ store'[ns][k].data \in NewPrompts]_vars

\* C2: for every namespace and stage key, a read that finds the key absent
\* leads to the seeding write, which stores the static default and returns
\* it; and a read of a key whose last write was a seeding write returns that
\* same default from the store, writing nothing.
C2_FirstReadSeedsDefault ==
    [][\A r \in Runs, k \in StoreKeys :
          /\ (ReadsNow(r, k) /\ store[RunNs(r)][k] = None) =>
                (got'[r][k] = None /\ runPc'[r] = "put" /\ prefs'[r][k] = Unset)
          /\ (SettlesNow(r, k) /\ got[r][k] = None) =>
                /\ prefs'[r][k] = DefaultOf(k)
                /\ store'[RunNs(r)][k] = Item(DefaultOf(k))
          /\ (ReadsNow(r, k) /\ writer[RunNs(r)][k] = "stage") =>
                /\ prefs'[r][k] = DefaultOf(k)
                /\ prefs'[r][k] = store[RunNs(r)][k].data
                /\ store' = store]_vars

\* C2 witness: one run found random_preferences absent and seeded it, and a
\* later run of the same namespace read the seeded default back.
C2_Witness ==
    \E r1, r2 \in Runs :
       LET k == "random_preferences" IN
       /\ r1 # r2 /\ RunNs(r1) = RunNs(r2)
       /\ got[r1][k] = None /\ prefs[r1][k] = prompt_config["background_preferences"]
       /\ got[r2][k] = Item(prompt_config["background_preferences"])
       /\ prefs[r2][k] = prompt_config["background_preferences"]
       /\ writer[RunNs(r1)][k] = "stage"

\* C3: when the last write to a key is a reflection write of v, the next stage
\* read of that key returns v (never the static default) and the stage does
\* not go on to a seeding write.
C3_ReadAfterReflection ==
    [][\A r \in Runs, k \in StoreKeys :
          (ReadsNow(r, k) /\ writer[RunNs(r)][k] = "reflection") =>
             /\ "data" \in DOMAIN store[RunNs(r)][k]
             /\ store[RunNs(r)][k].data \in NewPrompts
             /\ prefs'[r][k] = store[RunNs(r)][k].data
             /\ prefs'[r][k] # DefaultOf(k)
             /\ runPc'[r] # "put"
             /\ store' = store /\ writer' = writer]_vars

\* C3 witness: a stage has read a key last written by the reflection
\* subsystem and uses the revised text.
C3_Witness ==
    \E r \in Runs, k \in StoreKeys :
       /\ writer[RunNs(r)][k] = "reflection"
       /\ got[r][k] = store[RunNs(r)][k]
       /\ prefs[r][k] \in NewPrompts

(***************************************************************************)
(* Claims about the retry wrappers (checked under RetrySpec).              *)
(***************************************************************************)
RECURSIVE SumSeq(_)
SumSeq(q) == IF q = << >> THEN 0 ELSE q[1] + SumSeq(Tail(q))
RECURSIVE BackoffSum(_)
\* the sum of the first k backoff terms 1, 2, 4, ... times the base delay
BackoffSum(k) == IF k = 0 THEN 0 ELSE BackoffSum(k - 1) + 1 * (2 ^ (k - 1))

\* the wrapper returned a result to the stage
WrapperReturned == spc = "done" /\ calls >= 1 /\ wrapperRaised = NoErr
\* the stage is triage_input or draft_response, and the email is not personal
HardFailing == stage = "draft_response" /\ ~is_personal_email(email)

\* C4 (as stated): with max_attempts = 5, a call that returns has failed fewer
\* than 5 times and slept the sum of that many backoff terms; once 5
\* invocations have failed the operation has been invoked at most 5 times and
\* no result is returned.
C4_Original ==
    /\ (WrapperReturned /\ overloads = failures) =>
          (failures < 5 /\ SumSeq(sleeps) = BackoffSum(failures))
    /\ (failures >= 5 /\ overloads = failures) => (calls <= 5 /\ ~WrapperReturned)

\* C4 (amended): max_retries = 5 counts retries, so the operation is invoked
\* at most 6 times; a call that returns after k failures has k <= 5 and slept
\* the sum of the first k backoff terms; an overloaded error that reaches the
\* caller does so after exactly 6 invocations and 5 sleeps.
C4_RetryBudget ==
    /\ calls <= 5 + 1
    /\ WrapperReturned =>
          /\ failures = calls - 1
          /\ failures <= 5
          /\ Len(sleeps) = failures
          /\ SumSeq(sleeps) = BackoffSum(failures)
    /\ (wrapperRaised # NoErr /\ wrapperRaised.overloaded) =>
          /\ calls = 5 + 1
          /\ failures = calls
          /\ wrapperRaised = err
          /\ SumSeq(sleeps) = BackoffSum(5)

\* C4 witness: the sixth invocation succeeded after five overloaded failures
C4_Witness ==
    /\ WrapperReturned
    /\ failures = 5
    /\ overloads = 5
    /\ calls = 6
    /\ SumSeq(sleeps) = 31

\* C5: no delay is slept before attempt 1, one delay is slept before each later
\* attempt, and the delay before attempt k (k >= 2) is base_delay * 2^(k-2):
\* 1, 2, 4, 8, ... for base_delay 1.
C5_BackoffDelays ==
    /\ \A i \in 1..Len(sleeps) : sleeps[i] = 1 * (2 ^ ((i + 1) - 2))
    /\ calls = 0 => sleeps = << >>
    /\ spc = "call" => Len(sleeps) = calls
    /\ calls >= 1 => Len(sleeps) \in {calls - 1, calls}

\* C5 witness: the triage wrapper is about to make attempt 6 after sleeping
\* 1, 2, 4, 8, 16
C5_Witness ==
    /\ stage = "triage_input"
    /\ spc = "call"
    /\ calls = 5
    /\ sleeps = <<1, 2, 4, 8, 16>>

\* the errors a wrapper retries, as the amended C6 states them
RetriedKind(e) ==
    IF stage = "triage_input"
    THEN e.cls = "InternalServerError" /\ e.overloaded
    ELSE e.cls = "InternalServerError" => e.overloaded

\* C6 (as stated): every error of the wrapped operation, transient or other,
\* is retried until the budget is used up, in both wrappers: an error reaches
\* the wrapper's caller only when retries = max_retries.
C6_Original == wrapperRaised # NoErr => retries = max_retries

\* C6 (amended): the drafting wrapper retries an overloaded
\* InternalServerError and every error that is not an InternalServerError;
\* the triage wrapper retries an overloaded InternalServerError only; each
\* retries while retries < max_retries, and any other error is re-raised at
\* once.
C6_RetriedErrors ==
    /\ spc = "sleep" =>
          (RetriedKind(err) /\ retries <= max_retries /\ failures = retries)
    /\ wrapperRaised # NoErr =>
          /\ failures = retries + 1
          /\ RetriedKind(wrapperRaised) => retries = max_retries

\* C6 witness: the triage wrapper re-raised an error that is no
\* InternalServerError on the first attempt, without a retry
C6_Witness ==
    /\ stage = "triage_input"
    /\ wrapperRaised # NoErr
    /\ wrapperRaised.cls = "Exception"
    /\ retries = 0 /\ calls = 1 /\ sleeps = << >>

\* C7 (as stated): when retries are exhausted the error that reaches the
\* caller of the stage is the last error of the wrapped operation, unchanged.
C7_Original ==
    (retries = max_retries /\ stageRaised # NoErr) => stageRaised = err

\* C7 (amended): the wrapper re-raises the last error of the wrapped
\* operation unchanged; triage_input lets it through unchanged; draft_response
\* raises a new ValueError chained to it when the email is not personal, and
\* returns the synthesized reply instead of an error when it is.
C7_ErrorPropagation ==
    /\ wrapperRaised # NoErr => (wrapperRaised = err /\ err.id = calls)
    /\ stage = "triage_input" => stageRaised = wrapperRaised
    /\ stage = "draft_response" =>
          IF wrapperRaised # NoErr /\ ~is_personal_email(email)
          THEN /\ spc = "failed"
               /\ stageRaised =
                     [cls |-> "ValueError", overloaded |-> FALSE, cause |-> wrapperRaised]
          ELSE /\ stageRaised = NoErr
               /\ wrapperRaised # NoErr =>
                     (spc = "done" /\ draft = FallbackDraft("response_draft_fallback"))

\* C7 witness: draft_response failed after the retries were exhausted, with a
\* ValueError whose cause is the last error of the generation call
C7_Witness ==
    /\ stage = "draft_response"
    /\ retries = max_retries
    /\ spc = "failed"
    /\ stageRaised.cls = "ValueError"
    /\ stageRaised.cause = err
    /\ err.id = 6

\* C8 (as stated): a response without a tool call is never retried: after it
\* the stage has ended, in the fallback or in a hard failure.
C8_Original ==
    (stage = "draft_response" /\ resp = NoToolCalls) => spc \in {"done", "failed"}

\* C8 (amended): for a personal email a response without a tool call ends the
\* stage at once with the synthesized reply; for any other email it raises a
\* ValueError that the wrapper retries like every error that is not an
\* InternalServerError, and only when retries = max_retries does the stage
\* fail.
C8_ProtocolViolation ==
    (stage = "draft_response" /\ resp = NoToolCalls) =>
       IF is_personal_email(email)
       THEN /\ spc = "done"
            /\ draft = FallbackDraft("response_draft_tool_call")
            /\ wrapperRaised = NoErr
            /\ failures = calls - 1
       ELSE /\ err = NoToolCallError(calls)
            /\ \/ /\ spc \in {"sleep", "call"}
                  /\ retries = calls
                  /\ retries <= max_retries
               \/ /\ spc = "failed"
                  /\ retries = max_retries
                  /\ calls = max_retries + 1
                  /\ stageRaised = DraftFailure(err)

\* C8 witness: the generation call answered without a tool call six times for
\* an email that is not personal, each but the last retried
C8_Witness ==
    /\ HardFailing
    /\ resp = NoToolCalls
    /\ spc = "failed"
    /\ calls = 6
    /\ err = NoToolCallError(6)

\* the capability answered without a tool call in this invocation of the
\* stage: in the latest call, or in an earlier one that was retried
NoActionReturned ==
    resp = NoToolCalls \/ (err.cls = "ValueError" /\ "cause" \notin DOMAIN err)
\* the capability answers without a tool call in this step
NoActionNow == stage = "draft_response" /\ calls' = calls + 1 /\ resp' = NoToolCalls

\* C28 (as stated): when the capability has returned no action, the drafting
\* stage ends, for a personal email, in success with the synthesized
\* ResponseEmailDraft as the latest log entry, and for any other email in a
\* hard failure with nothing merged.
C28_Original ==
    (stage = "draft_response" /\ spc \in {"done", "failed"} /\ NoActionReturned) =>
       IF is_personal_email(email)
       THEN /\ spc = "done"
            /\ draft.tool = "ResponseEmailDraft"
            /\ messages # << >> /\ messages[Len(messages)] = draft
       ELSE /\ spc = "failed"
            /\ draft = NoDraft
            /\ \A i \in 1..Len(messages) : messages[i].type # "ai"

\* C28 (amended): a response without an action ends the stage at once only
\* for a personal email, in success, with the synthesized ResponseEmailDraft
\* appended to the log.  For any other email the response is retried while
\* retries < max_retries, merging nothing; only at retries = max_retries does
\* the stage fail hard, the log and the draft left as they were.
C28_NoActionOutcome ==
    [][NoActionNow =>
          IF is_personal_email(email)
          THEN /\ spc' = "done"
               /\ draft' = [type |-> "ai", tool |-> "ResponseEmailDraft",
                            call_id |-> "response_draft_tool_call"]
               /\ messages' = Append(messages, draft')
               /\ stageRaised' = NoErr
          ELSE /\ messages' = messages
               /\ draft' = draft
               /\ IF retries < max_retries
                  THEN spc' = "sleep" /\ retries' = retries + 1 /\ stageRaised' = NoErr
                  ELSE /\ spc' = "failed"
                       /\ stageRaised'.cls = "ValueError"
                       /\ stageRaised'.cause = NoToolCallError(calls + 1)]_vars

\* C28 witness: for a personal email the capability answered without an
\* action and the synthesized reply was appended to a log of one entry
C28_Witness ==
    /\ stage = "draft_response"
    /\ is_personal_email(email)
    /\ resp = NoToolCalls
    /\ spc = "done"
    /\ calls = 1
    /\ Len(messages) = 2
    /\ messages[2] = draft
    /\ draft.tool = "ResponseEmailDraft"

(***************************************************************************)
(* Claims about the triage pre-filter (checked under TriageSpec).          *)
(***************************************************************************)
\* triage_input settled the decision in the pre-filter, without an external call
IgnoredByPrefilter == spc = "done" /\ calls = 0

\* C9: for the scenario email (subject "Weekly NVIDIA news digest -
\* unsubscribe", body containing "unsubscribe") the triage stage decides
\* ignore (response "no") in the pre-filter, without invoking the external
\* classification capability.
C9_ScenarioIgnored ==
    (email = ScenarioEmail /\ spc # "start") =>
       (IgnoredByPrefilter /\ triage.response = "no")

\* C10: an email whose subject or body matches an allow-list pattern is never
\* ignored by the pre-filter, whatever promotional indicators match; and when
\* the pre-filter ignores an email, some matching indicator has a confidence
\* above 0.8, so indicators at or below it never cause ignore.
C10_AllowListAndThreshold ==
    spc # "start" =>
       LET subject == LowerText(email.subject)
           content == LowerText(email.page_content)
       IN /\ ImportantMatch(subject, content) => ~IgnoredByPrefilter
          /\ IgnoredByPrefilter =>
                \E n \in 1..Len(PROMOTIONAL_INDICATORS) :
                   LET ind == PROMOTIONAL_INDICATORS[n] IN
                   /\ SubjectMatch(ind, subject) \/ ContentMatch(ind, content)
                   /\ ind.confidence > 8

\* C10 witness: a newsletter with an unsubscribe body that also mentions an
\* interview went past the pre-filter to the external classification
C10_Witness ==
    /\ spc = "call"
    /\ Search(<< <<"newsletter">> >>, LowerText(email.subject))
    /\ Search(<< <<"unsubscribe">> >>, LowerText(email.page_content))
    /\ Search(<< <<"interview">> >>, LowerText(email.subject))

\* the newsletter indicator matches subject and body
NewsletterWithUnsubscribe(subject, content) ==
    /\ Search(<< <<"newsletter">> >>, subject)
    /\ Search(<< <<"unsubscribe">> >>, content)

\* C36: the pre-filter ignores an email exactly when no important pattern
\* matches subject or body, the subject is not a meeting invitation with a
\* time marker, the subject matches "newsletter" and the body matches
\* "unsubscribe"; every other combination of matches (the nvidia-news,
\* weekly-digest and personalized indicators alone included) is not ignored.
C36_IgnoredExactlyWhen ==
    LET subject == LowerText(email.subject)
        content == LowerText(email.page_content)
        expected == /\ ~ImportantMatch(subject, content)
                    /\ ~InvitationWithMarker(subject)
                    /\ NewsletterWithUnsubscribe(subject, content)
    IN /\ should_ignore_immediately(email) <=> expected
       /\ spc # "start" => (IgnoredByPrefilter <=> expected)
\* a weekly digest newsletter with an unsubscribe body was ignored
C36_Witness ==
    /\ IgnoredByPrefilter
    /\ email.subject = <<"Weekly", "newsletter">>
    /\ email.page_content = <<"unsubscribe">>

(***************************************************************************)
(* Claims about the main graph (checked under GraphSpec).                  *)
(***************************************************************************)
\* the latest entry of the log
Tail_(log) == log[Len(log)]
\* the latest entry of the log holds a tool call named name
TailCalls(log, name) ==
    /\ log # << >>
    /\ HasToolCalls(Tail_(log))
    /\ Tail_(log).tool_calls[1].name = name
\* a node was executed in this step and returned (its update was merged)
Returned(name) ==
    /\ steps' = steps + 1
    /\ last' = name
    /\ failure' \in {"none", "AttributeError", "ConfigurationError"}

\* C11: when a run reaches the human checkpoint the loop stops: no node runs
\* after human_node until a resume call has supplied a human decision for
\* that visit of the checkpoint.
C11_StopsAtCheckpoint ==
    [][(last = "human_node" /\ steps' = steps + 1) => resumes >= visits]_vars

ClosedActionSet ==
    {"NewEmailDraft", "ResponseEmailDraft", "Question", "MeetingAssistant",
     "SendCalendarInvite", "Ignore"}

\* C14: when the drafting stage emits an action whose tag is outside the
\* closed set, take_action routes to bad_tool_name; bad_tool_name appends
\* exactly one tool-result entry, tied to that action's id, keeps every other
\* entry in place, and is followed by draft_response.
C14_RecoveryNode ==
    [][/\ (/\ Returned("draft_response")
           /\ Tail_(messages').tool_calls[1].name \notin ClosedActionSet)
             => (node' = "bad_tool_name" /\ status' = "running")
       /\ Returned("bad_tool_name")
             => /\ Len(messages') = Len(messages) + 1
                /\ Ids(SubSeq(messages', 1, Len(messages))) = Ids(messages)
                /\ Tail_(messages').type = "tool"
                /\ Tail_(messages').tool_call_id = Tail_(messages).tool_calls[1].id
                /\ node' = "draft_response"
                /\ status' = "running"]_vars

\* C14 witness: the recovery node has answered an unknown action and the
\* drafting stage is next
C14_Witness ==
    /\ last = "bad_tool_name"
    /\ node = "draft_response"
    /\ Len(messages) >= 2
    /\ Tail_(messages).type = "tool"
    /\ messages[Len(messages) - 1].tool_calls[1].name = "Unrecognized"
    /\ Tail_(messages).tool_call_id = messages[Len(messages) - 1].tool_calls[1].id

\* the run is over for the engine: it ended, failed, or waits for the human
Stopped == status \in {"ended", "suspended", "failed"}

\* C15: every run terminates: it reaches END, suspends at a human checkpoint
\* or fails; and a run that is still going at the maximum step bound ends in a
\* fatal error (it neither goes on nor stops without one).
C15_Terminates ==
    /\ (status = "running") ~> Stopped
    /\ (status = "running" /\ steps = MaxSteps)
          ~> (status = "failed" /\ failure = "GraphRecursionError" /\ steps = MaxSteps)

\* C15 witness: the cycle draft_response -> bad_tool_name -> draft_response ran
\* into the step bound and the run failed
C15_Witness ==
    /\ status = "failed"
    /\ failure = "GraphRecursionError"
    /\ steps = MaxSteps
    /\ last = "bad_tool_name"
    /\ node = "draft_response"

\* the state the engine hands to the routing function after a merge
StateNext == [email |-> email', messages |-> messages', triage |-> triage']

\* C16: whenever a node with conditional routing has returned, its routing
\* function (route_after_triage with should_use_gmail_agent, take_action,
\* enter_after_human), evaluated on the merged state, returns a name of its
\* declared successor set, and that name is a node of the graph.
C16_DeclaredSuccessor ==
    [][\A a \in Routers :
          Returned(a) => Route(a, StateNext) \in (Declared(a) \cap Nodes)]_vars

\* the ids of the entries of a log, as a set
IdSet(log) == {log[i].id : i \in 1..Len(log)}

\* C17: whenever triage_input returns on a state whose log is non-empty, every
\* prior entry is removed by id, so the log is empty right after the merge,
\* and the new decision is recorded: "no" on the pre-filter path, the
\* classifier's answer on the classification path.
C17_TriageClearsLog ==
    [][(Returned("triage_input") /\ messages # << >>)
          => /\ messages' = << >>
             /\ IdSet(messages) \subseteq removed'
             /\ IF should_ignore_immediately(email)
                THEN triage' = RespondTo("no")
                ELSE triage' \in (TriageResults \ {[type |-> "error"]})]_vars

\* C17 witness: triage ran on a log holding entry 0, on the pre-filter path,
\* and left an empty log and the decision "no"
C17_Witness ==
    /\ last = "triage_input"
    /\ steps = 2
    /\ removed = {0}
    /\ messages = << >>
    /\ should_ignore_immediately(email)
    /\ triage = RespondTo("no")
    /\ node = "mark_as_read_node"

\* log a is kept in log b: same ids, same order, at the same positions
KeptIn(a, b) == Len(b) >= Len(a) /\ SubSeq(Ids(b), 1, Len(a)) = Ids(a)

\* C18: in every step but a returned triage_input step the log keeps its
\* prior entries in their order (an entry may be replaced in place by one of
\* the same id, new entries go to the end); and the first append after the
\* bulk-remove of triage_input yields a log holding exactly the new entry.
C18_AppendOnlyLog ==
    [][/\ ~Returned("triage_input") => KeptIn(messages, messages')
       /\ (/\ removed # {}
           /\ messages = << >>
           /\ messages' # << >>)
             => /\ Len(messages') = 1
                /\ messages'[1].id \notin removed]_vars

\* C18 witness: triage removed entry 0, and the log then grew to the drafted
\* action, the recovery entry and a second drafted action, in that order
C18_Witness ==
    /\ removed = {0}
    /\ Len(messages) = 3
    /\ messages[1].type = "ai"
    /\ messages[2].type = "tool"
    /\ messages[3].type = "ai"
    /\ messages[1].id < messages[2].id
    /\ messages[2].id < messages[3].id

\* the pending action was resolved in this step: a delivery node returned, or
\* an inbox node returned with the human's response
ResolvedNow ==
    \/ Returned("send_email_node")
    \/ Returned("send_cal_invite_node") /\ effects' # effects
    \/ (\E a \in InboxNodes : Returned(a)) /\ resumes' = resumes + 1
          /\ Len(messages') = Len(messages) + 1

\* C19: the draft field is non-null right after the drafting stage, null
\* right after the pending action is resolved by a delivery or by the human's
\* response, and once drafting has succeeded the state is never both
\* draft-null and log-empty.
C19_PendingAction ==
    [][/\ Returned("draft_response") => draft' # NoDraft
       /\ ResolvedNow => draft' = NoDraft
       /\ (\E i \in 1..Len(messages') : messages'[i].type = "ai")
             => ~(draft' = NoDraft /\ messages' = << >>)]_vars

\* C20: when rewrite returns, the log has as many entries as before, every
\* earlier entry is unchanged, and the latest entry keeps its message id, its
\* action's id and tag name and every argument but content.
C20_RewriteFrame ==
    [][Returned("rewrite") =>
          LET n == Len(messages)
              old == Tail_(messages)
              new == Tail_(messages')
              old_call == old.tool_calls[1]
              new_call == new.tool_calls[1]
          IN /\ Len(messages') = n
             /\ SubSeq(messages', 1, n - 1) = SubSeq(messages, 1, n - 1)
             /\ new.id = old.id
             /\ new.type = old.type
             /\ Len(new.tool_calls) = Len(old.tool_calls)
             /\ new_call.id = old_call.id
             /\ new_call.name = old_call.name
             /\ DOMAIN new_call.args = DOMAIN old_call.args
             /\ \A k \in DOMAIN old_call.args \ {"content"} :
                   new_call.args[k] = old_call.args[k]
             /\ new_call.args.content = "rewritten"]_vars

\* C20 witness: rewrite returned on a log of three entries; the drafted reply
\* holds the rewritten content and its recipients as drafted, the two earlier
\* entries are the unknown action and its recovery entry
C20_Witness ==
    /\ last = "rewrite"
    /\ node = "send_email_draft"
    /\ Len(messages) = 3
    /\ messages[1].tool_calls[1].name = "Unrecognized"
    /\ messages[2].type = "tool"
    /\ TailCalls(messages, "ResponseEmailDraft")
    /\ Tail_(messages).tool_calls[1].args =
          [content |-> "rewritten", new_recipients |-> "[]"]
    /\ Tail_(messages).tool_calls[1].id = CallId(Tail_(messages).id)

\* the nodes that call a delivery collaborator
DeliveryNodes == {"send_email_node", "send_cal_invite_node", "mark_as_read_node"}
\* node name was executed in this step and its collaborator call failed: no
\* delivery was made (a KeyError is raised before the call is attempted)
DeliveryFailed(name) ==
    /\ steps' = steps + 1
    /\ last' = name
    /\ effects' = effects
    /\ failure' # "KeyError"

\* C21: when the collaborator of a delivery node fails, the failure is
\* recorded as one more entry of the log and the run goes on along the node's
\* edge instead of failing.
C21_DeliveryFailureRecorded ==
    [][\A name \in DeliveryNodes :
          DeliveryFailed(name)
             => /\ status' # "failed"
                /\ Len(messages') = Len(messages) + 1
                /\ Tail_(messages').type = "tool"
                /\ node' = Edge(name)]_vars

\* the elements of a sequence
Range(seq) == {seq[i] : i \in 1..Len(seq)}

\* C22: a run that ended in a hard failure has applied no external side
\* effect; in particular no failed run has sent the reply without marking the
\* email as processed.
C22_NoPartialSideEffect ==
    status = "failed" =>
       /\ effects = << >>
       /\ "send_email" \in Range(effects) => "mark_as_read" \in Range(effects)

\* C23: a run whose initial state has no email fails at the entry node with
\* a fatal error: no other node is ever executed (the classifier, the
\* capability and the store are only reached from the later nodes), nothing
\* is merged and no delivery is made.
C23_MissingEmailFails ==
    email = NoEmail =>
       /\ node = "initialize"
       /\ effects = << >>
       /\ triage \in {AbsentTriage, NoneTriage}
       /\ removed = {}
       /\ \/ status = "running" /\ steps = 0 /\ last = "none" /\ failure = "none"
          \/ status = "failed" /\ steps = 1 /\ last = "initialize"
                /\ failure = "ValueError"

\* C23 witness: the run without email has failed at the entry node
C23_Witness ==
    /\ email = NoEmail
    /\ status = "failed"
    /\ failure = "ValueError"
    /\ last = "initialize"
    /\ steps = 1

(***************************************************************************)
(* Claims about the reflection fan-out (checked under StoreSpec).          *)
(***************************************************************************)
\* update task t has been sent and has not finished
Active(t) == taskPc[t] \in {"get", "llm"}

\* C24: in one fan-out no two update tasks for the same store key are under
\* way at the same time, whatever list the selection returned.
C24_SameKindNotConcurrent ==
    \A t1, t2 \in Tasks :
       (t1 # t2 /\ Active(t1) /\ Active(t2))
          => <<taskNs[t1], taskKey[t1]>> # <<taskNs[t2], taskKey[t2]>>

\* the store keys of a set of preference kinds
KeysOfKinds(kinds) == {MEMORY_TO_UPDATE_KEYS[k] : k \in kinds}

\* C25: every update task that was dispatched is for a kind that was offered
\* to the selection (prompt_types), and the reflection subsystem writes no
\* key of a kind that was not offered.
C25_DispatchedWithinOffered ==
    /\ \A t \in Tasks :
          taskPc[t] # "none" => taskKey[t] \in KeysOfKinds(prompt_types)
    /\ \A ns \in Namespaces, k \in StoreKeys :
          writer[ns][k] = "reflection" => k \in KeysOfKinds(prompt_types)

\* C26: an update task writes the store only when the capability signals
\* update_prompt; it then writes one key, its own (the key its kind maps to),
\* with the revised value.  With the signal false, in the reading step and in
\* the dispatch step the store is left as it is, and after a selection of no
\* kinds no key is ever written by the reflection subsystem.
C26_WriteOnlyOnSignal ==
    [][/\ \A t \in Tasks, p \in NewPrompts :
             UpdateGeneralPut(t, FALSE, p) => (store' = store /\ writer' = writer)
       /\ \A t \in Tasks, p \in NewPrompts :
             UpdateGeneralPut(t, TRUE, p) =>
                /\ taskKey[t] \in KeysOfKinds(MemoryTypes)
                /\ store'[taskNs[t]][taskKey[t]] = Item(p)
                /\ \A ns \in Namespaces, k \in StoreKeys :
                      <<ns, k>> # <<taskNs[t], taskKey[t]>>
                         => store'[ns][k] = store[ns][k]
       /\ \A t \in Tasks : UpdateGeneralGet(t) => store' = store
       /\ (~dispatched /\ dispatched') => store' = store
       /\ (dispatched' /\ \A t \in Tasks : taskPc'[t] = "none")
             => \A ns \in Namespaces, k \in StoreKeys :
                   writer'[ns][k] # "reflection"]_vars

\* C26 witness: of two finished tasks one has written its key with a revised
\* prompt while the key of the other still holds the seeded default
C26_Witness ==
    \E t1, t2 \in Tasks :
       /\ taskPc[t1] = "done" /\ taskPc[t2] = "done"
       /\ taskKey[t1] # taskKey[t2]
       /\ writer[taskNs[t1]][taskKey[t1]] = "reflection"
       /\ store[taskNs[t1]][taskKey[t1]] \in {Item(p) : p \in NewPrompts}
       /\ writer[taskNs[t2]][taskKey[t2]] = "stage"
       /\ store[taskNs[t2]][taskKey[t2]] = Item(DefaultOf(taskKey[t2]))

\* C27: an update task whose key is still absent from the store (no stage
\* has read it yet) reads a defined current value, seeded from the default,
\* and goes on to the capability; it does not fail.
C27_AbsentKeyReadAsDefault ==
    [][\A t \in Tasks :
          (UpdateGeneralGet(t) /\ store[taskNs[t]][taskKey[t]] = None)
             => taskPc'[t] = "llm"]_vars

(***************************************************************************)
(* Claims about the routes after the human checkpoint (GraphSpec).         *)
(***************************************************************************)
\* C29: when human_node returns and the latest log entry is the calendar
\* action (SendCalendarInvite) the human approved, the run goes on in
\* send_cal_invite_node, the node that calls the invite collaborator.
C29_ApprovedInviteDelivery ==
    [][(Returned("human_node") /\ TailCalls(messages', "SendCalendarInvite"))
          => (node' = "send_cal_invite_node" /\ status' = "running")]_vars

\* C29 witness: the human accepted the invite at send_cal_invite and the
\* delivery node is next
C29_Witness ==
    /\ last = "human_node"
    /\ resumes = 1
    /\ effects = << >>
    /\ TailCalls(messages, "SendCalendarInvite")
    /\ node = "send_cal_invite_node"
    /\ status = "running"

\* the log ends with a Question action followed by the human's answer
QuestionAnswered(log) ==
    /\ Len(log) >= 2
    /\ Tail_(log).type = "human"
    /\ TailCalls(SubSeq(log, 1, Len(log) - 1), "Question")

\* C30: when a Question action was answered by a human entry appended to the
\* log, human_node leaves the log as it is and enter_after_human routes to
\* draft_response, which therefore runs on a log that ends with the answer.
C30_AnsweredQuestionRedrafts ==
    [][(Returned("human_node") /\ QuestionAnswered(messages))
          => /\ messages' = messages
             /\ node' = "draft_response"
             /\ status' = "running"]_vars

\* C30 witness: the question was answered at send_message and the drafting
\* stage is about to run on the log that ends with the answer
C30_Witness ==
    /\ last = "human_node"
    /\ resumes = 1
    /\ QuestionAnswered(messages)
    /\ node = "draft_response"
    /\ status = "running"

\* the positions of the log of deliveries that hold the mark-processed call
Marks == {i \in 1..Len(effects) : effects[i] = "mark_as_read"}

\* C37: END is reached only through mark_as_read_node: in every run that
\* ended, the mark-processed collaborator was invoked exactly once, as the
\* last delivery, by the last node executed.
C37_EndOnlyThroughMarkAsRead ==
    status = "ended"
       => /\ node = END
          /\ last = "mark_as_read_node"
          /\ Marks = {Len(effects)}
\* a run that delivered a reply and then marked the email
C37_Witness ==
    /\ status = "ended"
    /\ Len(effects) = 2
    /\ effects[1] # "mark_as_read" /\ effects[2] = "mark_as_read"

\* C38: after the delivery of an invite the run never ends directly:
\* send_cal_invite_node appends one tool-result entry for the delivered call,
\* whether the delivery succeeded or failed, and goes to human_node; the log
\* then ends with a tool-result entry and enter_after_human routes to
\* draft_response.
C38_InviteDeliveryRedrafts ==
    [][/\ Returned("send_cal_invite_node")
             => /\ Len(messages') = Len(messages) + 1
                /\ SubSeq(messages', 1, Len(messages)) = messages
                /\ Tail_(messages').type = "tool"
                /\ Tail_(messages').tool_call_id = Tail_(messages).tool_calls[1].id
                /\ node' = "human_node" /\ status' = "running"
       /\ (Returned("human_node") /\ last = "send_cal_invite_node")
             => /\ Tail_(messages').type = "tool"
                /\ node' = "draft_response" /\ status' = "running"]_vars
\* the drafting stage runs again on the log that ends with the error text
C38_Witness ==
    /\ last = "draft_response"
    /\ \E i \in 1..Len(messages) :
          /\ messages[i].type = "tool"
          /\ messages[i].content = "Got the following error"
          /\ i > 1 /\ TailCalls(SubSeq(messages, 1, i - 1), "SendCalendarInvite")
    /\ "send_calendar_invite" \notin Range(effects)

\* C39: triage_input executes at most once per run: it runs only as the
\* successor of the entry node, no edge and no routing function selects it
\* afterwards, and the triage decision does not change once it has run.
C39_TriageOnce ==
    [][/\ (steps' = steps + 1 /\ last' = "triage_input")
             => (last = "initialize" /\ steps = 1)
       /\ node' = "triage_input" => (node = "initialize" \/ node' = node)
       /\ steps >= 2 => triage' = triage]_vars
\* the run went through the checkpoint twice and into drafting again
C39_Witness ==
    /\ visits = 2 /\ resumes = 2
    /\ last = "human_node" /\ node = "draft_response" /\ status = "running"
    /\ Tail_(messages).type = "human"

(***************************************************************************)
(* Claims about the routing functions and the shape of the graph (checked  *)
(* under RouteSpec, where each routing function is applied to every state  *)
(* of the bounded input sets, or under GraphSpec).                         *)
(***************************************************************************)
\* C31: whenever the latest action is Ignore, take_action and
\* enter_after_human both route to mark_as_read_node with no delivery made;
\* mark_as_read_node marks the email and is followed by END only.
C31_IgnoreTerminates ==
    [][/\ \A a \in {"draft_response", "human_node"} :
             (Returned(a) /\ TailCalls(messages, "Ignore"))
                => /\ node' = "mark_as_read_node"
                   /\ status' = "running"
                   /\ effects' = effects
       /\ Returned("mark_as_read_node")
             => /\ node' = END
                /\ status' = "ended"
                /\ effects' = Append(effects, "mark_as_read")]_vars

\* C31 witness: enter_after_human met Ignore as the latest action; the email
\* was marked as read, nothing else was delivered and the run ended
C31_Witness ==
    /\ TailCalls(messages, "Ignore")
    /\ visits = 1
    /\ last = "mark_as_read_node"
    /\ effects = << "mark_as_read" >>
    /\ status = "ended"
    /\ node = END


\* the four decisions of the triage protocol
TriageDecisions == {"no", "email", "notify", "question"}
\* the triage decision the router has just read is outside the protocol
UnknownDecision ==
    /\ last = "triage_input"
    /\ triage.type \in {"RespondTo", "dict"}
    /\ triage.response \notin TriageDecisions

C33_OneNodeAtATime ==
    [][/\ \A a \in Nodes : (a \in EdgeSources) # (a \in Routers)
       /\ steps' = steps + 1
             => /\ status \in {"running", "suspended"}
                /\ last' = node
                /\ status' = "running"
                      => /\ node' \in Nodes
                         /\ node \in EdgeSources => node' = Edge(node)
                         /\ node \in Routers
                               => node' = Route(node, [email |-> email,
                                                       messages |-> messages',
                                                       triage |-> triage'])]_vars
C33_Witness ==
    /\ last = "draft_response" /\ node = "rewrite" /\ status = "running"
    /\ TailCalls(messages, "ResponseEmailDraft")


\* C34: take_action is exhaustive over the closed action set: every tag of
\* the set (NewEmailDraft, ResponseEmailDraft, Question, MeetingAssistant,
\* SendCalendarInvite, Ignore) is routed to a successor that is not the
\* recovery node, and bad_tool_name is reached only for tags outside the set.
C34_ClosedSetRouted ==
    [][(Returned("draft_response") /\ HasToolCalls(Tail_(messages')))
          => /\ status' = "running"
             /\ (node' = "bad_tool_name")
                   <=> (Tail_(messages').tool_calls[1].name \notin ClosedActionSet)]_vars


\* C40: with an empty log enter_after_human routes to mark_as_read_node if
\* and only if the triage decision is notify, and to draft_response for every
\* other decision; with a log that ends with a human entry, a tool-result
\* entry or an entry without action it routes to draft_response.
C40_CheckpointRouting ==
    [][Returned("human_node")
          => /\ messages' = << >>
                   => /\ status' = "running"
                      /\ (node' = "mark_as_read_node") <=> (triage'.response = "notify")
                      /\ triage'.response # "notify" => node' = "draft_response"
             /\ (/\ messages' # << >>
                 /\ \/ Tail_(messages').type \in {"human", "tool"}
                    \/ ~HasToolCalls(Tail_(messages')))
                   => (status' = "running" /\ node' = "draft_response")]_vars
\* a resume with an empty log and the decision "email" goes to drafting
C40_Witness ==
    /\ last = "human_node" /\ messages = << >> /\ triage = RespondTo("email")
    /\ node = "draft_response" /\ status = "running"

(***************************************************************************)
(* Claims about one whole invocation of the drafting stage (checked under  *)
(* DraftSpec).                                                             *)
(***************************************************************************)
\* the entries of the store that differ between this state and the next
Written == {<<ns, k>> \in Namespaces \X StoreKeys : store'[ns][k] # store[ns][k]}
\* the keys run 1 reads in this step
ReadNow == {k \in StoreKeys : got[1][k] = NotRead /\ got'[1][k] # NotRead}

\* C35: retries in the drafting stage repeat only the external call: each
\* preference key is read once and seeded at most once, before the first
\* attempt; no store write and no merge into the log happens between or
\* because of retry attempts; the update (one entry, the draft) is merged
\* once, by the step that ends the stage.
C35_RetriesOnlyRepeatCall ==
    [][/\ \A k \in StoreKeys :
             got'[1][k] # got[1][k]
                => \/ got[1][k] = NotRead /\ calls = 0 /\ spc = "start"
                   \/ runStage'[1] = "drafted"
       /\ \A w \in Written :
             /\ Written = {w}
             /\ w[1] = RunNs(1)
             /\ got[1][w[2]] # NotRead
             /\ prefs[1][w[2]] = Unset /\ prefs'[1][w[2]] # Unset
             /\ calls = 0 /\ spc = "start"
       /\ calls' # calls => (calls' = calls + 1 /\ runPc[1] = "rest" /\ Written = {})
       /\ (retries' # retries \/ sleeps' # sleeps)
             => UNCHANGED <<store, messages, draft, triage, got, prefs>>
       /\ messages' # messages
             => /\ spc = "call" /\ spc' = "done"
                /\ messages' = Append(messages, draft')
                /\ draft = NoDraft /\ draft' # NoDraft
       /\ spc \in {"done", "failed"} => UNCHANGED <<messages, draft, store, calls>>]_vars
\* two retries after a seeded and a stored preference, then the one merge
C35_Witness ==
    /\ spc = "done" /\ retries = 2 /\ calls = 3 /\ Len(sleeps) = 2
    /\ runStage[1] = "draft_response" /\ runPc[1] = "rest"
    /\ writer[RunNs(1)]["random_preferences"] = "stage"
    /\ got[1]["schedule_preferences"] = Item("stored")
    /\ writer[RunNs(1)]["schedule_preferences"] = "none"
    /\ draft # NoDraft /\ messages # << >> /\ Tail_(messages) = draft

====
